---- MODULE Spec2Model ----
(***************************************************************************)
(* Project-Memory: the five MCP tool handlers of MCPContextToolServer      *)
(* (internal/server/server.go) over the SQLite context store               *)
(* (contextstore), the vector codec and cosine similarity                  *)
(* (internal/vector) and the BasicSummarizer (internal/summarizer).        *)
(*                                                                         *)
(* Modelling conventions                                                   *)
(*  - A text is a sequence of one-byte characters, <<"a", "b", ".">>.      *)
(*  - A float32 is an integer (the mock embedder's component scaled by     *)
(*    500); cosine similarities are compared exactly, so float32 rounding  *)
(*    is not represented.                                                  *)
(*  - An embedding blob is a sequence of 4-byte words: the int32 length    *)
(*    prefix followed by one word per float32.                             *)
(*  - The 16-hex id sha256(summary ++ timestamp.String())[:16] is the pair *)
(*    <<summary, tick>>: the digest is taken to be collision free, and a   *)
(*    tick is one reading of time.Now().                                   *)
(*  - Every handler is one atomic step: the reference serves requests one  *)
(*    at a time on a single connection.                                    *)
(***************************************************************************)
EXTENDS Integers, Sequences, FiniteSets, TLC

VARIABLES
    rows,   \* the context_memory table: a set of row records
    now,    \* the latest reading of time.Now(), in ticks
    last    \* the most recent request: tool, arguments, collaborator calls, response

vars == <<rows, now, last>>

---------------------------------------------------------------------------
(* Bounds                                                                  *)

MaxRows == 2            \* saves are accepted while the table has fewer rows
MaxTime == 2            \* the clock is read in 0..MaxTime
TicksPerSecond == 2     \* clock readings per second of time.Time.Unix()
MaxSummaryLen == 4      \* maxSummaryLen the BasicSummarizer is built with
MaxStored == 6          \* rows of the largest table retrieve_context is served over
MaxGoroutines == 2      \* goroutines handling tool requests at the same time
Dim == 2                \* dimensions the MockEmbedder is built with

---------------------------------------------------------------------------
(* Program constants                                                       *)

DefaultRetrieveLimit == 5

Ellipsis == <<".", ".", ".">>

---------------------------------------------------------------------------
(* Inputs                                                                  *)

EmptyText == <<>>
TextA     == <<"a">>
TextB     == <<"b">>
LongText  == <<"a", "b", ".", "c", "d", "e", "f">>

\* context_text of save_context and replace_context
Texts == {TextA, LongText}

\* query of retrieve_context
Queries == {TextA, TextB, LongText}

Confirmations == {"confirm", "Confirm", " confirm ", ""}

\* limit of retrieve_context; 0 is also what an omitted limit decodes to
Limits == {-1, 0, 1, 2}

\* where a request's collaborators fail: nowhere, or at the first call of
\* the summarizer, the embedder or the store
Failures == {"none", "summarizer", "embedder", "store"}

EmptyID   == <<>>                 \* the id ""
ForeignID == << <<>>, -1 >>       \* a client-chosen id that no save derives

NoSummaries == {}

---------------------------------------------------------------------------
(* internal/summarizer/basic_summarizer.go                                 *)

max(a, b) == IF a > b THEN a ELSE b

\* strings.LastIndex for a one-byte separator: 0-based index, -1 when absent
LastIndex(s, c) ==
    LET hits == {i \in 1..Len(s) : s[i] = c}
    IN  IF hits = {} THEN -1
        ELSE (CHOOSE i \in hits : \A j \in hits : j <= i) - 1

NewBasicSummarizer(maxSummaryLen) ==
    IF maxSummaryLen <= 0 THEN 200 ELSE maxSummaryLen

\* mutant: a text as long as the maximum is cut as a longer one would be
Summarize_StrictBound(text, maxSummaryLen) ==
    IF Len(text) < maxSummaryLen THEN text
    ELSE LET truncateLen == IF maxSummaryLen - Len(Ellipsis) < 0
                            THEN 0 ELSE maxSummaryLen - Len(Ellipsis)
         IN  SubSeq(text, 1, truncateLen) \o Ellipsis

Summarize(text, maxSummaryLen) ==
    IF Len(text) <= maxSummaryLen THEN text
    ELSE
      LET truncated == SubSeq(text, 1, maxSummaryLen)
          lastPeriod == LastIndex(truncated, ".")
          lastQuestion == LastIndex(truncated, "?")
          lastExclamation == LastIndex(truncated, "!")
          lastSentenceBoundary == max(lastPeriod, max(lastQuestion, lastExclamation))
      IN  IF lastSentenceBoundary > 0
          THEN SubSeq(text, 1, lastSentenceBoundary + 1)
          ELSE
            LET truncateLen == IF maxSummaryLen - Len(Ellipsis) < 0
                               THEN 0 ELSE maxSummaryLen - Len(Ellipsis)
                truncated2 == IF truncateLen < Len(text)
                              THEN SubSeq(text, 1, truncateLen) ELSE truncated
                lastSpace == LastIndex(truncated2, " ")
            IN  IF lastSpace > 0
                THEN SubSeq(text, 1, lastSpace) \o Ellipsis
                ELSE truncated2 \o Ellipsis

\* the summarizer the server is built with
Summary(text) == Summarize(text, NewBasicSummarizer(MaxSummaryLen))

---------------------------------------------------------------------------
(* internal/vector/mock_embedder.go                                        *)

\* md5.Sum(text) read as four little-endian uint32 words, each taken
\* modulo 1000 (the only part of a word CreateEmbedding uses).  MD5 itself
\* is not computed: the table fixes one deterministic digest per text.
Digest(text) ==
    CASE text = TextA                 -> <<501, 500, 500, 500>>
      [] text = TextB                 -> <<500, 501, 500, 500>>
      [] text = EmptyText             -> <<501, 501, 500, 500>>
      [] text = LongText              -> <<502, 501, 500, 500>>
      [] text = <<"a", "b", ".">>     -> <<499, 501, 500, 500>>
      [] OTHER                        -> <<501, 499, 500, 500>>

\* float32(seed%1000)/500.0 - 1.0, scaled by 500.  normalizeEmbedding
\* divides every component by the same positive magnitude, which changes
\* no cosine similarity, so components stay unnormalized integers.
CreateEmbedding(text) ==
    [i \in 1..Dim |-> (Digest(text)[(((i - 1) * 4) % 16) \div 4 + 1] % 1000) - 500]

\* int32 length prefix, then the values
Float32SliceToBytes(floats) == <<Len(floats)>> \o floats

\* mutant: a prefix that is not positive is an error
BytesToFloat32Slice_RejectNonPositive(data) ==
    IF Len(data) < 1 THEN [err |-> TRUE, panic |-> FALSE, floats |-> <<>>]
    ELSE IF data[1] <= 0 THEN [err |-> TRUE, panic |-> FALSE, floats |-> <<>>]
    ELSE IF Len(data) - 1 < data[1] THEN [err |-> TRUE, panic |-> FALSE, floats |-> <<>>]
    ELSE [err |-> FALSE, panic |-> FALSE, floats |-> SubSeq(data, 2, data[1] + 1)]

\* reads the prefix, then exactly that many values; trailing words are
\* left unread.  A short blob, or a blob without a prefix, is an error.
\* make([]float32, length) panics on a negative prefix.
BytesToFloat32Slice(data) ==
    IF Len(data) < 1 THEN [err |-> TRUE, panic |-> FALSE, floats |-> <<>>]
    ELSE IF data[1] < 0 THEN [err |-> FALSE, panic |-> TRUE, floats |-> <<>>]
    ELSE IF Len(data) - 1 < data[1] THEN [err |-> TRUE, panic |-> FALSE, floats |-> <<>>]
    ELSE [err |-> FALSE, panic |-> FALSE, floats |-> SubSeq(data, 2, data[1] + 1)]

RECURSIVE SumTo(_, _)
SumTo(f, n) == IF n = 0 THEN 0 ELSE f[n] + SumTo(f, n - 1)

\* The similarity dotProduct / (sqrt(normA) * sqrt(normB)) is kept as the
\* pair (num, den2) = (dotProduct, normA * normB).
CosineSimilarity(a, b) ==
    IF Len(a) # Len(b) THEN [err |-> TRUE, num |-> 0, den2 |-> 1]
    ELSE
      LET dotProduct == SumTo([i \in 1..Len(a) |-> a[i] * b[i]], Len(a))
          normA == SumTo([i \in 1..Len(a) |-> a[i] * a[i]], Len(a))
          normB == SumTo([i \in 1..Len(a) |-> b[i] * b[i]], Len(a))
      IN  IF normA = 0 \/ normB = 0 THEN [err |-> TRUE, num |-> 0, den2 |-> 1]
          ELSE [err |-> FALSE, num |-> dotProduct, den2 |-> normA * normB]

\* x.Similarity > y.Similarity
SimGreater(x, y) ==
    IF x.num >= 0 /\ y.num < 0 THEN TRUE
    ELSE IF x.num < 0 /\ y.num >= 0 THEN FALSE
    ELSE IF x.num >= 0
         THEN x.num * x.num * y.den2 > y.num * y.num * x.den2
         ELSE x.num * x.num * y.den2 < y.num * y.num * x.den2

---------------------------------------------------------------------------
(* internal/errortypes/errortypes.go                                       *)

\* the text of the error a failing collaborator returns
ErrText == "test error"

\* TypedError.Error() of a TypedError built with (err, message)
Error(message, errText) ==
    IF message # "" THEN message \o ": " \o errText ELSE errText

---------------------------------------------------------------------------
(* contextstore: SQLiteContextStore                                        *)

\* mutant: the instant is kept at the clock's full resolution
Unix_FullResolution(t) == t

\* time.Time.Unix(): whole seconds
Unix(t) == t \div TicksPerSecond

Row(id, summaryText, embedding, timestamp) ==
    [id |-> id, summary_text |-> summaryText,
     embedding |-> embedding, timestamp |-> Unix(timestamp)]

\* mutant: a plain INSERT into a table without the PRIMARY KEY
Store_InsertOnly(table, id, summaryText, embedding, timestamp, fail) ==
    IF fail THEN [err |-> TRUE, rows |-> table]
    ELSE [err |-> FALSE,
          rows |-> table \cup {Row(id, summaryText, embedding, timestamp)}]

\* mutant: the statement replaces every row of the table, not only the row
\* holding the id
Store_ReplacesAll(table, id, summaryText, embedding, timestamp, fail) ==
    IF fail THEN [err |-> TRUE, rows |-> table]
    ELSE [err |-> FALSE, rows |-> {Row(id, summaryText, embedding, timestamp)}]

\* mutant: a failing statement has already removed the row it was to replace
Store_PartialOnFail(table, id, summaryText, embedding, timestamp, fail) ==
    IF fail THEN [err |-> TRUE, rows |-> {r \in table : r.id # id}]
    ELSE [err |-> FALSE,
          rows |-> {r \in table : r.id # id}
                     \cup {Row(id, summaryText, embedding, timestamp)}]

\* mutant: the statement reports success without the row becoming visible
Store_NotVisible(table, id, summaryText, embedding, timestamp, fail) ==
    [err |-> fail, rows |-> table]

\* INSERT OR REPLACE INTO context_memory ... : the row holding the PRIMARY
\* KEY id, if any, is removed and the new row inserted.  A failing
\* statement changes nothing.
Store(table, id, summaryText, embedding, timestamp, fail) ==
    IF fail THEN [err |-> TRUE, rows |-> table]
    ELSE [err |-> FALSE,
          rows |-> {r \in table : r.id # id}
                     \cup {Row(id, summaryText, embedding, timestamp)}]

\* mutant: Replace fails when no row holds the id
Replace_RequireExisting(table, id, summaryText, embedding, timestamp, fail) ==
    IF fail \/ {r \in table : r.id = id} = {}
    THEN [err |-> TRUE, rows |-> table]
    ELSE [err |-> FALSE,
          rows |-> {r \in table : r.id # id}
                     \cup {Row(id, summaryText, embedding, timestamp)}]

\* Replace is an alias of Store
Replace(table, id, summaryText, embedding, timestamp, fail) ==
    Store(table, id, summaryText, embedding, timestamp, fail)

\* Delete removes the row with the id and succeeds when there is none
Delete(table, id, fail) ==
    IF fail THEN [err |-> TRUE, rows |-> table]
    ELSE [err |-> FALSE, rows |-> {r \in table : r.id # id}]

\* Clear removes every row and returns how many there were
Clear(table, fail) ==
    IF fail THEN [err |-> TRUE, count |-> 0, rows |-> table]
    ELSE [err |-> FALSE, count |-> Cardinality(table), rows |-> {}]

\* one scanned row: its summary and its similarity to the query
Scored(r, queryEmbedding) ==
    LET dec == BytesToFloat32Slice(r.embedding)
        sim == CosineSimilarity(queryEmbedding, dec.floats)
    IN  [id |-> r.id, SummaryText |-> r.summary_text,
         timestamp |-> r.timestamp,
         panic |-> dec.panic,
         err |-> dec.err \/ (~dec.panic /\ sim.err),
         Similarity |-> sim]

\* mutant: the scanned rows are not sorted
SortedOrders_Unsorted(scored) ==
    LET n == Cardinality(scored)
    IN  {f \in [1..n -> scored] : \A i, j \in 1..n : i # j => f[i] # f[j]}

\* The orders sort.Slice may leave the scanned rows in: every arrangement
\* in which no element is followed by one of strictly greater similarity
\* (each position takes any remaining element that none exceeds).
\* sort.Slice is not a stable sort and the scan order of rows with equal
\* timestamps is SQLite's choice, so rows of equal similarity may come out
\* in any order.
RECURSIVE SortedOrders(_)
SortedOrders(scored) ==
    IF scored = {} THEN {<<>>}
    ELSE UNION {{<<x>> \o p : p \in SortedOrders(scored \ {x})} :
                  x \in {y \in scored :
                           \A z \in scored :
                              ~SimGreater(z.Similarity, y.Similarity)}}

\* The rows the scan (ORDER BY timestamp DESC) may stop at: a row that
\* cannot be decoded or scored and that no other such row precedes.
FirstFailing(scored) ==
    LET failing == {x \in scored : x.panic \/ x.err}
    IN  {x \in failing : \A y \in failing : y.timestamp <= x.timestamp}

\* mutant: every scanned row is returned, whatever the limit
Search_NoLimit(table, queryEmbedding, limit, fail) ==
    LET scored == {Scored(r, queryEmbedding) : r \in table}
    IN  IF fail \/ \E x \in scored : x.panic \/ x.err
        THEN {[err |-> TRUE, panic |-> FALSE, results |-> <<>>]}
        ELSE {[err |-> FALSE, panic |-> FALSE,
               results |-> [i \in 1..Cardinality(scored) |-> f[i].SummaryText]] :
                 f \in SortedOrders(scored)}

\* The outcomes of Search(queryEmbedding, limit): an error when the
\* statement fails; the error or panic of the first row in scan order
\* that cannot be decoded or scored; else the first min(limit, n)
\* summaries of a sorted order.  make([]string, limit) panics on a
\* negative limit.
Search(table, queryEmbedding, limit, fail) ==
    LET scored == {Scored(r, queryEmbedding) : r \in table}
    IN  IF fail
        THEN {[err |-> TRUE, panic |-> FALSE, results |-> <<>>]}
        ELSE IF FirstFailing(scored) # {}
        THEN {[err |-> ~x.panic, panic |-> x.panic, results |-> <<>>] :
                x \in FirstFailing(scored)}
        ELSE LET lim == IF limit > Cardinality(scored)
                        THEN Cardinality(scored) ELSE limit
             IN  IF lim < 0
                 THEN {[err |-> FALSE, panic |-> TRUE, results |-> <<>>]}
                 ELSE {[err |-> FALSE, panic |-> FALSE,
                        results |-> [i \in 1..lim |-> f[i].SummaryText]] :
                          f \in SortedOrders(scored)}

---------------------------------------------------------------------------
(* internal/server/server.go: the tool handlers                            *)

\* a response envelope; fields a tool's response type lacks stay zero
Response(status, error, id, results, deletedCount) ==
    [status |-> status, error |-> error, id |-> id,
     results |-> results, deleted_count |-> deletedCount]

SuccessResponse == Response("success", "", EmptyID, <<>>, 0)

\* mutant: response.Error is left unset
ErrorResponse_NoMessage(message) == Response("error", "", EmptyID, <<>>, 0)

\* response.Status = "error"; response.Error = err.Error()
ErrorResponse(message) == Response("error", message, EmptyID, <<>>, 0)

Call(fn, arg, ok) == [fn |-> fn, arg |-> arg, ok |-> ok]

\* what a handler leaves behind: the table, the clock reading, the calls
\* it made on its collaborators in order, and the response it returned
Outcome(table, clock, calls, resp) ==
    [rows |-> table, now |-> clock, calls |-> calls, resp |-> resp]

\* mutant: the embedder's error is not checked
handleSaveContext_IgnoreEmbedError(table, clock, text, t, sumFail, embFail, storeFail) ==
    LET summary == Summary(text)
        embedding == CreateEmbedding(summary)
        embeddingBytes == Float32SliceToBytes(embedding)
        id == <<summary, t>>
        st == Store(table, id, summary, embeddingBytes, t, storeFail)
        c1 == Call("Summarize", text, ~sumFail)
        c2 == Call("CreateEmbedding", summary, ~embFail)
        c3 == Call("Float32SliceToBytes", embedding, TRUE)
        c4 == Call("Store", Row(id, summary, embeddingBytes, t), ~st.err)
    IN  IF sumFail
        THEN Outcome(table, clock, <<c1>>,
                     ErrorResponse(Error("failed to summarize text", ErrText)))
        ELSE IF st.err
        THEN Outcome(st.rows, t, <<c1, c2, c3, c4>>,
                     ErrorResponse(Error("failed to store context", ErrText)))
        ELSE Outcome(st.rows, t, <<c1, c2, c3, c4>>,
                     Response("success", "", id, <<>>, 0))

\* handleSaveContext from the result of s.summarizer.Summarize on: summary is
\* what the summarizer returned, sumFail whether it returned an error; t is
\* the reading time.Now() returns if it is reached
handleSaveContextWith(table, clock, text, summary, t, sumFail, embFail, storeFail) ==
    LET embedding == CreateEmbedding(summary)
        embeddingBytes == Float32SliceToBytes(embedding)
        id == <<summary, t>>
        st == Store(table, id, summary, embeddingBytes, t, storeFail)
        c1 == Call("Summarize", text, ~sumFail)
        c2 == Call("CreateEmbedding", summary, ~embFail)
        c3 == Call("Float32SliceToBytes", embedding, TRUE)
        c4 == Call("Store", Row(id, summary, embeddingBytes, t), ~st.err)
    IN  IF sumFail
        THEN Outcome(table, clock, <<c1>>,
                     ErrorResponse(Error("failed to summarize text", ErrText)))
        ELSE IF embFail
        THEN Outcome(table, clock, <<c1, c2>>,
                     ErrorResponse(Error("failed to create embedding", ErrText)))
        ELSE IF st.err
        THEN Outcome(st.rows, t, <<c1, c2, c3, c4>>,
                     ErrorResponse(Error("failed to store context", ErrText)))
        ELSE Outcome(st.rows, t, <<c1, c2, c3, c4>>,
                     Response("success", "", id, <<>>, 0))

\* handleSaveContext on a server built with the BasicSummarizer
handleSaveContext(table, clock, text, t, sumFail, embFail, storeFail) ==
    handleSaveContextWith(table, clock, text, Summary(text), t,
                          sumFail, embFail, storeFail)

\* mutant: the request's limit is ignored in favour of the default
handleRetrieveContext_IgnoreLimit(table, clock, query, reqLimit, embFail, storeFail) ==
    LET limit == DefaultRetrieveLimit
        queryEmbedding == CreateEmbedding(query)
        c1 == Call("CreateEmbedding", query, ~embFail)
    IN  IF embFail
        THEN {Outcome(table, clock, <<c1>>,
                ErrorResponse(Error("failed to create embedding for query", ErrText)))}
        ELSE {Outcome(table, clock,
                      <<c1, Call("Search", <<queryEmbedding, limit>>, ~(s.err \/ s.panic))>>,
                      IF s.panic THEN Response("panic", "", EmptyID, <<>>, 0)
                      ELSE IF s.err
                      THEN ErrorResponse(Error("failed to search context store", ErrText))
                      ELSE Response("success", "", EmptyID, s.results, 0)) :
                s \in Search(table, queryEmbedding, limit, storeFail)}

\* mutant: only an omitted (zero) limit is replaced by the default
handleRetrieveContext_DefaultOnZeroOnly(table, clock, query, reqLimit, embFail, storeFail) ==
    LET limit == IF reqLimit = 0 THEN DefaultRetrieveLimit ELSE reqLimit
        queryEmbedding == CreateEmbedding(query)
        c1 == Call("CreateEmbedding", query, ~embFail)
    IN  IF embFail
        THEN {Outcome(table, clock, <<c1>>,
                ErrorResponse(Error("failed to create embedding for query", ErrText)))}
        ELSE {Outcome(table, clock,
                      <<c1, Call("Search", <<queryEmbedding, limit>>, ~(s.err \/ s.panic))>>,
                      IF s.panic THEN Response("panic", "", EmptyID, <<>>, 0)
                      ELSE IF s.err
                      THEN ErrorResponse(Error("failed to search context store", ErrText))
                      ELSE Response("success", "", EmptyID, s.results, 0)) :
                s \in Search(table, queryEmbedding, limit, storeFail)}

\* mutant: the rows whose summaries are returned are removed from the table
handleRetrieveContext_ConsumeRows(table, clock, query, reqLimit, embFail, storeFail) ==
    LET limit == IF reqLimit <= 0 THEN DefaultRetrieveLimit ELSE reqLimit
        queryEmbedding == CreateEmbedding(query)
        c1 == Call("CreateEmbedding", query, ~embFail)
    IN  IF embFail
        THEN {Outcome(table, clock, <<c1>>,
                ErrorResponse(Error("failed to create embedding for query", ErrText)))}
        ELSE {Outcome({r \in table :
                         r.summary_text \notin {s.results[i] : i \in DOMAIN s.results}},
                      clock,
                      <<c1, Call("Search", <<queryEmbedding, limit>>, ~(s.err \/ s.panic))>>,
                      IF s.panic THEN Response("panic", "", EmptyID, <<>>, 0)
                      ELSE IF s.err
                      THEN ErrorResponse(Error("failed to search context store", ErrText))
                      ELSE Response("success", "", EmptyID, s.results, 0)) :
                s \in Search(table, queryEmbedding, limit, storeFail)}

\* handleRetrieveContext: the set of outcomes, one per order Search may
\* return rows of equal similarity in
handleRetrieveContext(table, clock, query, reqLimit, embFail, storeFail) ==
    LET limit == IF reqLimit <= 0 THEN DefaultRetrieveLimit ELSE reqLimit
        queryEmbedding == CreateEmbedding(query)
        c1 == Call("CreateEmbedding", query, ~embFail)
    IN  IF embFail
        THEN {Outcome(table, clock, <<c1>>,
                ErrorResponse(Error("failed to create embedding for query", ErrText)))}
        ELSE {Outcome(table, clock,
                      <<c1, Call("Search", <<queryEmbedding, limit>>, ~(s.err \/ s.panic))>>,
                      IF s.panic THEN Response("panic", "", EmptyID, <<>>, 0)
                      ELSE IF s.err
                      THEN ErrorResponse(Error("failed to search context store", ErrText))
                      ELSE Response("success", "", EmptyID, s.results, 0)) :
                s \in Search(table, queryEmbedding, limit, storeFail)}

\* mutant: the store's error is not checked
handleDeleteContext_IgnoreError(table, clock, id, storeFail) ==
    LET d == Delete(table, id, storeFail)
        c1 == Call("Delete", id, ~d.err)
    IN  Outcome(d.rows, clock, <<c1>>, SuccessResponse)

\* mutant: an empty id is rejected before the store is called
handleDeleteContext_RequireID(table, clock, id, storeFail) ==
    LET d == Delete(table, id, storeFail)
        c1 == Call("Delete", id, ~d.err)
    IN  IF id = EmptyID
        THEN Outcome(table, clock, <<>>, ErrorResponse("ID is required"))
        ELSE IF d.err
        THEN Outcome(d.rows, clock, <<c1>>,
                     ErrorResponse(Error("failed to delete context", ErrText)))
        ELSE Outcome(d.rows, clock, <<c1>>, SuccessResponse)

\* handleDeleteContext
handleDeleteContext(table, clock, id, storeFail) ==
    LET d == Delete(table, id, storeFail)
        c1 == Call("Delete", id, ~d.err)
    IN  IF d.err
        THEN Outcome(d.rows, clock, <<c1>>,
                     ErrorResponse(Error("failed to delete context", ErrText)))
        ELSE Outcome(d.rows, clock, <<c1>>, SuccessResponse)

\* mutant: the confirmation is compared after trimming white space
ConfirmationRejected_Trimmed(confirmation) ==
    confirmation \notin {"confirm", " confirm "}

\* req.Confirmation != "confirm"
ConfirmationRejected(confirmation) == confirmation # "confirm"

\* mutant: response.DeletedCount is left unset
handleClearAllContext_NoCount(table, clock, confirmation, storeFail) ==
    IF confirmation # "confirm"
    THEN Outcome(table, clock, <<>>,
                 ErrorResponse("Confirmation required. Set confirmation to 'confirm' to proceed with clearing all context"))
    ELSE LET c == Clear(table, storeFail)
             c1 == Call("Clear", <<>>, ~c.err)
         IN  IF c.err
             THEN Outcome(c.rows, clock, <<c1>>,
                          ErrorResponse(Error("failed to clear context store", ErrText)))
             ELSE Outcome(c.rows, clock, <<c1>>, SuccessResponse)

\* handleClearAllContext
handleClearAllContext(table, clock, confirmation, storeFail) ==
    IF ConfirmationRejected(confirmation)
    THEN Outcome(table, clock, <<>>,
                 ErrorResponse("Confirmation required. Set confirmation to 'confirm' to proceed with clearing all context"))
    ELSE LET c == Clear(table, storeFail)
             c1 == Call("Clear", <<>>, ~c.err)
         IN  IF c.err
             THEN Outcome(c.rows, clock, <<c1>>,
                          ErrorResponse(Error("failed to clear context store", ErrText)))
             ELSE Outcome(c.rows, clock, <<c1>>,
                          Response("success", "", EmptyID, <<>>, c.count))

\* mutant: the id is not validated
handleReplaceContext_NoIDCheck(table, clock, id, text, t, sumFail, embFail, storeFail) ==
    LET summary == Summary(text)
        embedding == CreateEmbedding(summary)
        embeddingBytes == Float32SliceToBytes(embedding)
        st == Replace(table, id, summary, embeddingBytes, t, storeFail)
        c1 == Call("Summarize", text, ~sumFail)
        c2 == Call("CreateEmbedding", summary, ~embFail)
        c3 == Call("Float32SliceToBytes", embedding, TRUE)
        c4 == Call("Replace", Row(id, summary, embeddingBytes, t), ~st.err)
    IN  IF sumFail
        THEN Outcome(table, clock, <<c1>>,
                     ErrorResponse(Error("failed to summarize new text for replace_context", ErrText)))
        ELSE IF embFail
        THEN Outcome(table, clock, <<c1, c2>>,
                     ErrorResponse(Error("failed to create new embedding for replace_context", ErrText)))
        ELSE IF st.err
        THEN Outcome(st.rows, t, <<c1, c2, c3, c4>>,
                     ErrorResponse(Error("failed to replace context for replace_context", ErrText)))
        ELSE Outcome(st.rows, t, <<c1, c2, c3, c4>>, SuccessResponse)

\* handleReplaceContext
handleReplaceContext(table, clock, id, text, t, sumFail, embFail, storeFail) ==
    LET summary == Summary(text)
        embedding == CreateEmbedding(summary)
        embeddingBytes == Float32SliceToBytes(embedding)
        st == Replace(table, id, summary, embeddingBytes, t, storeFail)
        c1 == Call("Summarize", text, ~sumFail)
        c2 == Call("CreateEmbedding", summary, ~embFail)
        c3 == Call("Float32SliceToBytes", embedding, TRUE)
        c4 == Call("Replace", Row(id, summary, embeddingBytes, t), ~st.err)
    IN  IF id = EmptyID
        THEN Outcome(table, clock, <<>>,
                     ErrorResponse(Error("invalid replace_context request",
                                         "id cannot be empty for replace_context")))
        ELSE IF sumFail
        THEN Outcome(table, clock, <<c1>>,
                     ErrorResponse(Error("failed to summarize new text for replace_context", ErrText)))
        ELSE IF embFail
        THEN Outcome(table, clock, <<c1, c2>>,
                     ErrorResponse(Error("failed to create new embedding for replace_context", ErrText)))
        ELSE IF st.err
        THEN Outcome(st.rows, t, <<c1, c2, c3, c4>>,
                     ErrorResponse(Error("failed to replace context for replace_context", ErrText)))
        ELSE Outcome(st.rows, t, <<c1, c2, c3, c4>>, SuccessResponse)

---------------------------------------------------------------------------
(* The server as a state machine: one step per tool request                *)

\* removed: the summaries stored under the request's id before a successful
\* delete_context or replace_context, which the request deleted or overwrote
Request(op, text, id, query, limit, confirmation, removed, out) ==
    [op |-> op, text |-> text, id |-> id, query |-> query, limit |-> limit,
     confirmation |-> confirmation, removed |-> removed,
     calls |-> out.calls, resp |-> out.resp]

\* ids a client may name: those of stored rows, the id of the request
\* before, the empty id and an id that was never issued
ClientIDs ==
    {r.id : r \in rows} \cup {EmptyID, ForeignID, last.id, last.resp.id}

\* what time.Now() may return to a request: any reading not before the
\* latest one (successive readings may be equal); a request that fails
\* before it reads the clock leaves the clock alone
Readings(fail) ==
    IF fail \in {"summarizer", "embedder"} THEN {now} ELSE now..MaxTime

SummariesOf(table, id) == {r.summary_text : r \in {x \in table : x.id = id}}

RemovedBy(out, id) ==
    IF out.resp.status = "success" THEN SummariesOf(rows, id) ELSE NoSummaries

\* state after NewContextToolServer over a freshly created database
Init ==
    /\ rows = {}
    /\ now = 0
    /\ last = Request("none", <<>>, EmptyID, <<>>, 0, "", NoSummaries,
                      Outcome({}, 0, <<>>, SuccessResponse))

\* a save_context request whose context_text is one of texts
SaveContextOf(texts) ==
    \E text \in texts, fail \in Failures : \E t \in Readings(fail) :
      LET out == handleSaveContext(rows, now, text, t, fail = "summarizer",
                                   fail = "embedder", fail = "store")
      IN  /\ Cardinality(out.rows) <= MaxRows
          /\ rows' = out.rows
          /\ now' = out.now
          /\ last' = Request("save_context", text, EmptyID, <<>>, 0, "",
                             NoSummaries, out)

SaveContext == SaveContextOf(Texts)

RetrieveContext ==
    \E query \in Queries, limit \in Limits, fail \in Failures \ {"summarizer"} :
      \E out \in handleRetrieveContext(rows, now, query, limit,
                                        fail = "embedder", fail = "store") :
          /\ rows' = out.rows
          /\ now' = out.now
          /\ last' = Request("retrieve_context", <<>>, EmptyID, query, limit, "",
                             NoSummaries, out)

DeleteContext ==
    \E id \in ClientIDs, fail \in {"none", "store"} :
      LET out == handleDeleteContext(rows, now, id, fail = "store")
      IN  /\ rows' = out.rows
          /\ now' = out.now
          /\ last' = Request("delete_context", <<>>, id, <<>>, 0, "",
                             RemovedBy(out, id), out)

ClearAllContext ==
    \E confirmation \in Confirmations, fail \in {"none", "store"} :
      LET out == handleClearAllContext(rows, now, confirmation, fail = "store")
      IN  /\ rows' = out.rows
          /\ now' = out.now
          /\ last' = Request("clear_all_context", <<>>, EmptyID, <<>>, 0,
                             confirmation, NoSummaries, out)

\* a replace_context request whose context_text is one of texts
ReplaceContextOf(texts) ==
    \E id \in ClientIDs, text \in texts, fail \in Failures : \E t \in Readings(fail) :
      LET out == handleReplaceContext(rows, now, id, text, t, fail = "summarizer",
                                      fail = "embedder", fail = "store")
      IN  /\ Cardinality(out.rows) <= MaxRows
          /\ rows' = out.rows
          /\ now' = out.now
          /\ last' = Request("replace_context", text, id, <<>>, 0, "",
                             RemovedBy(out, id), out)

ReplaceContext == ReplaceContextOf(Texts)

Next ==
    \/ SaveContext
    \/ RetrieveContext
    \/ DeleteContext
    \/ ClearAllContext
    \/ ReplaceContext

Spec == Init /\ [][Next]_vars

---------------------------------------------------------------------------
(* The store used through the ContextStore interface: one step per call    *)

\* ids and summaries a caller of the store passes to Store and Replace
StoreIDs == {<<TextA, 0>>, <<TextB, 0>>}

StoreSummaries == {TextA, TextB}

\* the vector whose k-th component is 1 and whose other components are 0
Unit(k) == [i \in 1..Dim |-> IF i = k THEN 1 ELSE 0]

\* embedding blobs a caller passes: two well-formed blobs of Dim values,
\* a zero vector, a blob with fewer values than its prefix announces, a
\* well-formed blob of Dim - 1 values, and a blob with a negative prefix
BlobX        == Float32SliceToBytes(Unit(1))
BlobY        == Float32SliceToBytes(Unit(2))
BlobZero     == Float32SliceToBytes([i \in 1..Dim |-> 0])
BlobShort    == <<Dim>> \o [i \in 1..(Dim - 1) |-> 1]
BlobLow      == Float32SliceToBytes([i \in 1..(Dim - 1) |-> 1])
BlobNegative == <<-1>>

Blobs == {BlobX, BlobY, BlobZero, BlobShort, BlobLow, BlobNegative}

\* texts whose embeddings are the query vectors: that of TextA is Unit(1),
\* that of EmptyText is equally similar to Unit(1) and Unit(2)
StoreQueries == {TextA, EmptyText}

\* the latest call, whether a statement or a collaborator of it failed,
\* and what it returned
StoreCall(op, id, query, limit, failed, err, panic, results, count) ==
    [op |-> op, id |-> id, query |-> query, limit |-> limit, failed |-> failed,
     err |-> err, panic |-> panic, results |-> results, count |-> count]

\* a freshly created database
StoreInit ==
    /\ rows = {}
    /\ now = 0
    /\ last = StoreCall("none", EmptyID, EmptyText, 0, FALSE, FALSE, FALSE, <<>>, 0)

CallStore ==
    \E id \in StoreIDs, s \in StoreSummaries, e \in Blobs,
       t \in {0, MaxTime}, fail \in BOOLEAN :
      LET out == Store(rows, id, s, e, t, fail)
      IN  /\ rows' = out.rows
          /\ last' = StoreCall("Store", id, EmptyText, 0, fail, out.err, FALSE,
                               <<>>, 0)
          /\ UNCHANGED now

CallReplace ==
    \E id \in StoreIDs, s \in StoreSummaries, e \in Blobs,
       t \in {0, MaxTime}, fail \in BOOLEAN :
      LET out == Replace(rows, id, s, e, t, fail)
      IN  /\ rows' = out.rows
          /\ last' = StoreCall("Replace", id, EmptyText, 0, fail, out.err, FALSE,
                               <<>>, 0)
          /\ UNCHANGED now

CallDelete ==
    \E id \in StoreIDs, fail \in BOOLEAN :
      LET out == Delete(rows, id, fail)
      IN  /\ rows' = out.rows
          /\ last' = StoreCall("Delete", id, EmptyText, 0, fail, out.err, FALSE,
                               <<>>, 0)
          /\ UNCHANGED now

CallClear ==
    \E fail \in BOOLEAN :
      LET out == Clear(rows, fail)
      IN  /\ rows' = out.rows
          /\ last' = StoreCall("Clear", EmptyID, EmptyText, 0, fail, out.err, FALSE,
                               <<>>, out.count)
          /\ UNCHANGED now

CallSearch ==
    \E query \in StoreQueries, limit \in Limits, fail \in BOOLEAN :
      \E out \in Search(rows, CreateEmbedding(query), limit, fail) :
          /\ last' = StoreCall("Search", EmptyID, query, limit, fail, out.err,
                               out.panic, out.results, 0)
          /\ UNCHANGED <<rows, now>>

\* retrieve_context served over the same table
CallRetrieve ==
    \E query \in StoreQueries, limit \in Limits, fail \in {"none", "embedder", "store"} :
      \E out \in handleRetrieveContext(rows, now, query, limit,
                                        fail = "embedder", fail = "store") :
          /\ rows' = out.rows
          /\ now' = out.now
          /\ last' = StoreCall("retrieve_context", EmptyID, query, limit,
                               fail # "none", out.resp.status = "error",
                               out.resp.status = "panic", out.resp.results, 0)

StoreNext ==
    \/ CallStore
    \/ CallReplace
    \/ CallDelete
    \/ CallClear
    \/ CallSearch
    \/ CallRetrieve

StoreSpec == StoreInit /\ [][StoreNext]_vars

---------------------------------------------------------------------------
(* The server when clients also send an empty context_text                 *)

SaveAnyContext == SaveContextOf(Texts \cup {EmptyText})

ReplaceAnyContext == ReplaceContextOf(Texts \cup {EmptyText})

AnyTextNext ==
    \/ SaveAnyContext
    \/ ReplaceAnyContext
    \/ ClearAllContext

AnyTextSpec == Init /\ [][AnyTextNext]_vars

---------------------------------------------------------------------------
(* retrieve_context over tables of up to MaxStored saved rows              *)

\* the table after n successful save_context requests, one per clock tick,
\* of TextA and LongText in turn
RECURSIVE SavedTable(_)
SavedTable(n) ==
    IF n = 0 THEN {}
    ELSE handleSaveContext(SavedTable(n - 1), n - 1,
                           IF n % 2 = 1 THEN TextA ELSE LongText, n,
                           FALSE, FALSE, FALSE).rows

RetrieveInit ==
    \E n \in 0..MaxStored :
        /\ rows = SavedTable(n)
        /\ now = n
        /\ last = Request("none", <<>>, EmptyID, <<>>, 0, "", NoSummaries,
                          Outcome({}, 0, <<>>, SuccessResponse))

RetrieveSpec == RetrieveInit /\ [][RetrieveContext]_vars

---------------------------------------------------------------------------
(* Tool requests handled by several goroutines over one store              *)

Goroutines == 1..MaxGoroutines

\* the store method each tool handler calls
StoreMethod(op) ==
    CASE op = "save_context"      -> "Store"
      [] op = "retrieve_context"  -> "Search"
      [] op = "delete_context"    -> "Delete"
      [] op = "clear_all_context" -> "Clear"
      [] op = "replace_context"   -> "Replace"

ConcurrentOps ==
    {"save_context", "retrieve_context", "delete_context",
     "clear_all_context", "replace_context"}

\* a goroutine that handles no request
Idle == [op |-> "none", id |-> EmptyID, pc |-> "idle"]

\* goroutines inside a method of the store
InStore == {g \in Goroutines : last[g].pc = "store"}

\* the table a store method leaves when it runs alone on the connection
Effect(table, req) ==
    CASE StoreMethod(req.op) = "Store"
           -> Store(table, req.id, TextA, BlobX, 0, FALSE).rows
      [] StoreMethod(req.op) = "Replace"
           -> Replace(table, req.id, TextA, BlobX, 0, FALSE).rows
      [] StoreMethod(req.op) = "Delete" -> Delete(table, req.id, FALSE).rows
      [] StoreMethod(req.op) = "Clear"  -> Clear(table, FALSE).rows
      [] StoreMethod(req.op) = "Search" -> table

\* here last holds, for each goroutine, the request it handles and the
\* handler's position in it
ConcurrentInit ==
    /\ rows = {}
    /\ now = 0
    /\ last = [g \in Goroutines |-> Idle]

\* the transport hands a request to an idle goroutine; the handler runs up
\* to its call of the store
Dispatch ==
    \E g \in Goroutines, op \in ConcurrentOps, id \in StoreIDs :
        /\ last[g].pc = "idle"
        /\ last' = [last EXCEPT ![g] = [op |-> op, id |-> id, pc |-> "handler"]]
        /\ UNCHANGED <<rows, now>>

\* the handler calls s.store.Store / Search / Delete / Clear / Replace:
\* neither MCPContextToolServer nor SQLiteContextStore holds a lock, so the
\* call is entered whatever the other goroutines are doing
EnterStore ==
    \E g \in Goroutines :
        /\ last[g].pc = "handler"
        /\ last' = [last EXCEPT ![g].pc = "store"]
        /\ UNCHANGED <<rows, now>>

\* the store method returns; a statement that shared the connection with
\* another goroutine's statement may have taken effect or failed
LeaveStore ==
    \E g \in Goroutines :
        /\ last[g].pc = "store"
        /\ rows' \in IF InStore = {g}
                      THEN {Effect(rows, last[g])}
                      ELSE {Effect(rows, last[g]), rows}
        /\ last' = [last EXCEPT ![g] = Idle]
        /\ UNCHANGED now

ConcurrentNext ==
    \/ Dispatch
    \/ EnterStore
    \/ LeaveStore

ConcurrentSpec == ConcurrentInit /\ [][ConcurrentNext]_vars

---------------------------------------------------------------------------
(* Properties                                                              *)

Succeeded(req) == req.resp.status = "success"

Called(req, fn) == \E i \in DOMAIN req.calls : req.calls[i].fn = fn

NoCallFailed(req) == \A i \in DOMAIN req.calls : req.calls[i].ok

IDs(table) == {r.id : r \in table}

\* C1: a clear_all_context request whose confirmation is not exactly
\* "confirm" is answered with status "error" and a non-empty error, does
\* not call the store's Clear and leaves the rows as they were; Clear is
\* called only by a clear_all_context request with confirmation "confirm".
C1_ClearAllNeedsExactConfirmation ==
    [][ /\ (last'.op = "clear_all_context" /\ last'.confirmation # "confirm")
           => /\ last'.resp.status = "error"
              /\ last'.resp.error # ""
              /\ ~Called(last', "Clear")
              /\ rows' = rows
        /\ Called(last', "Clear")
           => (last'.op = "clear_all_context" /\ last'.confirmation = "confirm")
      ]_vars

\* a clear_all_context with confirmation "Confirm" was rejected on a table that has rows
C1_Witness ==
    /\ last.op = "clear_all_context"
    /\ last.confirmation = "Confirm"
    /\ last.resp.status = "error"
    /\ rows # {}

\* the row a successful save_context or replace_context request wrote
WrittenID(req) == IF req.op = "save_context" THEN req.resp.id ELSE req.id

WrittenRow(req, clock) ==
    Row(WrittenID(req), Summary(req.text),
        Float32SliceToBytes(CreateEmbedding(Summary(req.text))), clock)

\* C2: the table never holds two rows with the same id, and a successful
\* save_context or replace_context whose id was already in the table leaves
\* under that id exactly the row of this call: its summary, its embedding
\* and the (whole-second) time of this call.
C2_OneRowPerIdFullReplace ==
    /\ [](\A r1, r2 \in rows : r1.id = r2.id => r1 = r2)
    /\ [][ ( /\ last'.op \in {"save_context", "replace_context"}
             /\ Succeeded(last')
             /\ WrittenID(last') \in IDs(rows) )
           => {r \in rows' : r.id = WrittenID(last')} = {WrittenRow(last', now')}
         ]_vars

\* a replace_context overwrote a row that held another summary, in a later second
C2_Witness ==
    /\ last.op = "replace_context"
    /\ Succeeded(last)
    /\ last.removed # {}
    /\ Summary(last.text) \notin last.removed
    /\ Unix(now) > 0
    /\ Cardinality(rows) = 1

\* the collaborator calls of a complete save_context / replace_context
Pipeline(req) ==
    LET summary == Summary(req.text)
        embedding == CreateEmbedding(summary)
    IN  << [fn |-> "Summarize", arg |-> req.text],
           [fn |-> "CreateEmbedding", arg |-> summary],
           [fn |-> "Float32SliceToBytes", arg |-> embedding],
           [fn |-> IF req.op = "save_context" THEN "Store" ELSE "Replace"] >>

C3_InOrder(req) ==
    LET n == Len(req.calls)
    IN  /\ n <= 4
        /\ \A i \in 1..n : req.calls[i].fn = Pipeline(req)[i].fn
        /\ \A i \in 1..n : i < 4 => req.calls[i].arg = Pipeline(req)[i].arg
        /\ \A i \in 1..n : i < n => req.calls[i].ok
        /\ Succeeded(req) <=> (n = 4 /\ req.calls[4].ok)

\* C3: save_context and replace_context call Summarize(text), then
\* CreateEmbedding(summary), then Float32SliceToBytes(embedding), then the
\* store write, in this order and each at most once; a call that fails is
\* the last call of the request, and a request that does not succeed
\* leaves the rows unchanged.
C3_PipelineOrderAndEarlyExit ==
    /\ [](last.op \in {"save_context", "replace_context"} => C3_InOrder(last))
    /\ [][ (last'.op \in {"save_context", "replace_context"} /\ ~Succeeded(last'))
           => rows' = rows ]_vars

\* a save_context stopped at the failing embedder while the table had rows
C3_Witness ==
    /\ last.op = "save_context"
    /\ Len(last.calls) = 2
    /\ ~last.calls[2].ok
    /\ rows # {}

\* C4: every response has status "success" or "error", and its error is
\* non-empty exactly when the status is "error".
C4_UniformEnvelope ==
    /\ last.resp.status \in {"success", "error"}
    /\ (last.resp.error # "") <=> (last.resp.status = "error")

\* a replace_context whose store write failed was answered with an error
C4_Witness ==
    /\ last.op = "replace_context"
    /\ Len(last.calls) = 4
    /\ ~last.calls[4].ok
    /\ last.resp.status = "error"

InResults(req, summary) ==
    \E i \in DOMAIN req.resp.results : req.resp.results[i] = summary

\* a row as save_context(text) writes it: its id derived from the summary
SavedFrom(r, text) ==
    /\ Len(r.id) = 2
    /\ r.id[2] >= 0
    /\ r.id[1] = Summary(text)
    /\ r.summary_text = Summary(text)

\* the similarity Search computes between a row and the embedding of a query
Sim(r, query) == Scored(r, CreateEmbedding(query)).Similarity

\* every row holding another summary is strictly less similar to the query
\* than the row `mine`
Outranks(mine, table, query) ==
    \A r \in table :
        r.summary_text # mine.summary_text
            => SimGreater(Sim(mine, query), Sim(r, query))

\* C5 as claimed: while a row saved from text is in the table, a successful
\* retrieve_context(query = text, limit = 1) returns exactly the summary of
\* text, whatever other rows there are.
C5_Original ==
    ( /\ last.op = "retrieve_context"
      /\ Succeeded(last)
      /\ last.limit = 1
      /\ \E r \in rows : SavedFrom(r, last.query) )
    => last.resp.results = <<Summary(last.query)>>

\* C5 as amended: while a row saved from text is in the table, a successful
\* retrieve_context(query = text, limit = 1) returns exactly one result,
\* and that result is the summary of text whenever every row holding
\* another summary is strictly less similar to the embedding of text than
\* the saved row is.
C5_RoundTripWhenSavedRowRanksFirst ==
    ( /\ last.op = "retrieve_context"
      /\ Succeeded(last)
      /\ last.limit = 1
      /\ \E r \in rows : SavedFrom(r, last.query) )
    => /\ Len(last.resp.results) = 1
       /\ (\E r \in rows : SavedFrom(r, last.query) /\ Outranks(r, rows, last.query))
            => last.resp.results = <<Summary(last.query)>>

\* the saved row came first although the table holds a row with another summary
C5_Witness ==
    /\ last.op = "retrieve_context"
    /\ Succeeded(last)
    /\ last.limit = 1
    /\ \E r \in rows : SavedFrom(r, last.query) /\ Outranks(r, rows, last.query)
    /\ \E r \in rows : r.summary_text # Summary(last.query)
    /\ last.resp.results = <<Summary(last.query)>>

\* a successful replace_context of a stored id is followed by a successful retrieve_context
ReplaceThenRetrieve ==
    /\ last.op = "replace_context"
    /\ Succeeded(last)
    /\ last.removed # {}
    /\ last'.op = "retrieve_context"
    /\ Succeeded(last')

\* C6 as claimed: after a successful replace_context(id, text2) of a stored
\* id, retrieve_context(text2, 1) returns the summary of text2, and a
\* retrieve returns the summary that was stored under id only if a row of
\* the table holds that summary.
C6_Original ==
    [][ ReplaceThenRetrieve
          => /\ (last'.query = last.text /\ last'.limit = 1)
                  => last'.resp.results = <<Summary(last.text)>>
             /\ \A s \in last.removed :
                  InResults(last', s) => \E r \in rows' : r.summary_text = s
      ]_vars

\* C6 as amended: after a successful replace_context(id, text2) of a stored
\* id, a successful retrieve_context(text2, 1) returns the summary of text2
\* whenever every row holding another summary is strictly less similar to
\* the embedding of text2 than the replaced row is; and every summary any
\* retrieve returns is the summary of a row the table holds at that time,
\* so the overwritten summary is returned only while a row holds it.
C6_ReplaceThenRetrieve ==
    /\ [][ ( /\ ReplaceThenRetrieve
             /\ last'.query = last.text
             /\ last'.limit = 1
             /\ \E r \in rows : r.id = last.id /\ Outranks(r, rows, last.text) )
           => last'.resp.results = <<Summary(last.text)>>
         ]_vars
    /\ [](last.op = "retrieve_context"
            => \A i \in DOMAIN last.resp.results :
                 \E r \in rows : r.summary_text = last.resp.results[i])

\* a replace_context put a new summary under a stored id, next to another row
C6_Witness ==
    /\ last.op = "replace_context"
    /\ Succeeded(last)
    /\ last.removed # {}
    /\ Summary(last.text) \notin last.removed
    /\ Cardinality(rows) = 2
    /\ \E r \in rows : r.id = last.id /\ Outranks(r, rows, last.text)

\* C7 as claimed: a successful save_context writes a row under an id that
\* was not in the table, so the table grows by one row; two successive
\* saves of the same text return different ids; and a retrieve with limit
\* 2 over at least two rows returns two entries.
C7_SaveAlwaysCreatesNewRow ==
    /\ [][ (last'.op = "save_context" /\ Succeeded(last'))
           => /\ last'.resp.id \notin IDs(rows)
              /\ Cardinality(rows') = Cardinality(rows) + 1
              /\ (last.op = "save_context" /\ Succeeded(last) /\ last.text = last'.text)
                   => last'.resp.id # last.resp.id
         ]_vars
    /\ []( ( /\ last.op = "retrieve_context"
             /\ Succeeded(last)
             /\ last.limit = 2
             /\ Cardinality(rows) >= 2 )
           => Len(last.resp.results) = 2 )

\* C8 as claimed: after a successful delete_context(id) no row has the id,
\* and the retrieve that follows does not return the deleted row's summary.
C8_Original ==
    /\ []((last.op = "delete_context" /\ Succeeded(last)) => last.id \notin IDs(rows))
    /\ [][ (last.op = "delete_context" /\ Succeeded(last) /\ last'.op = "retrieve_context")
           => \A s \in last.removed : ~InResults(last', s)
         ]_vars

\* C8 as amended: after a successful delete_context(id) no row has the id,
\* and every summary a retrieve returns is the summary of a row the table
\* holds at that time: the deleted row's summary is returned only if the id
\* was written again or another row holds the same summary.
C8_DeletedRowGone ==
    /\ (last.op = "delete_context" /\ Succeeded(last)) => last.id \notin IDs(rows)
    /\ last.op = "retrieve_context"
         => \A i \in DOMAIN last.resp.results :
              \E r \in rows : r.summary_text = last.resp.results[i]

\* a delete_context removed a row and left another row in the table
C8_Witness ==
    /\ last.op = "delete_context"
    /\ Succeeded(last)
    /\ last.removed # {}
    /\ rows # {}

Scannable(table, query) ==
    \A r \in table :
        LET x == Scored(r, CreateEmbedding(query)) IN ~x.err /\ ~x.panic

Min(a, b) == IF a < b THEN a ELSE b

\* the ways to pick k rows of the table, best first: no picked row is
\* followed by a more similar one, and no row left out is more similar
\* than a picked one
RankedSelections(table, query, k) ==
    {f \in [1..k -> table] :
        /\ \A i, j \in 1..k : i # j => f[i] # f[j]
        /\ \A i, j \in 1..k : i < j => ~SimGreater(Sim(f[j], query), Sim(f[i], query))
        /\ \A r \in table :
             (\A i \in 1..k : f[i] # r)
                => \A i \in 1..k : ~SimGreater(Sim(r, query), Sim(f[i], query))}

\* C11: over a table of n rows that all decode and score, a Search with a
\* limit L >= 1 whose statement does not fail returns min(L, n) summaries,
\* those of min(L, n) distinct rows in non-increasing order of similarity,
\* none of them less similar than a row left out; over an empty table
\* retrieve_context whose embedder and store do not fail answers success
\* with no results.
C11_SearchReturnsTopRanked ==
    /\ ( /\ last.op = "Search"
         /\ last.limit >= 1
         /\ ~last.failed
         /\ Scannable(rows, last.query) )
       => /\ ~last.err /\ ~last.panic
          /\ Len(last.results) = Min(last.limit, Cardinality(rows))
          /\ \E f \in RankedSelections(rows, last.query, Len(last.results)) :
               \A i \in 1..Len(last.results) : last.results[i] = f[i].summary_text
    /\ (last.op = "retrieve_context" /\ ~last.failed /\ rows = {})
       => (~last.err /\ ~last.panic /\ last.results = <<>>)

\* a Search with limit 1 over two rows returned the summary of the more similar row
C11_Witness ==
    /\ last.op = "Search"
    /\ last.limit = 1
    /\ ~last.failed
    /\ Cardinality(rows) = 2
    /\ Scannable(rows, last.query)
    /\ Len(last.results) = 1
    /\ \E r1, r2 \in rows :
         /\ SimGreater(Sim(r1, last.query), Sim(r2, last.query))
         /\ r1.summary_text # r2.summary_text
         /\ last.results[1] = r1.summary_text

\* C12 as claimed: when a Search returns the summaries of two rows that
\* are equally similar to the query, the row with the later timestamp
\* comes first.
C12_TiesMostRecentFirst ==
    ( /\ last.op = "Search"
      /\ ~last.err /\ ~last.panic
      /\ Len(last.results) = 2
      /\ Cardinality(rows) = 2 )
    => \A r1, r2 \in rows :
         ( /\ r1.timestamp > r2.timestamp
           /\ r1.summary_text # r2.summary_text
           /\ ~SimGreater(Sim(r1, last.query), Sim(r2, last.query))
           /\ ~SimGreater(Sim(r2, last.query), Sim(r1, last.query)) )
         => last.results = <<r1.summary_text, r2.summary_text>>

\* a row of the table cannot be decoded or scored against the query
SomeRowFails(table, query) ==
    \E r \in table :
        LET x == Scored(r, CreateEmbedding(query)) IN x.err \/ x.panic

\* C13 as claimed, for a positive limit: when a row's blob does not
\* decode, has another dimension than the query or has zero norm, Search
\* returns an error and no results, and retrieve_context answers with
\* status error.
C13_SearchAllOrNothing ==
    ( /\ last.op \in {"Search", "retrieve_context"}
      /\ last.limit >= 1
      /\ SomeRowFails(rows, last.query) )
    => (last.err /\ ~last.panic /\ last.results = <<>>)

\* the limit handleRetrieveContext passed to Search
SearchLimit(req) == req.calls[2].arg[2]

\* C14: retrieve_context calls Search with limit 5 when the request's
\* limit is 0 (omitted) or negative and with the request's limit when it
\* is positive; a successful retrieve_context without a limit over more
\* than 5 rows returns exactly 5 results.
C14_DefaultLimitFive ==
    /\ (last.op = "retrieve_context" /\ Called(last, "Search"))
       => SearchLimit(last) = IF last.limit <= 0 THEN 5 ELSE last.limit
    /\ (last.op = "retrieve_context" /\ Succeeded(last))
       => Len(last.resp.results)
            = Min(IF last.limit <= 0 THEN 5 ELSE last.limit, Cardinality(rows))

\* a retrieve_context without a limit over more than 5 rows returned 5 results
C14_Witness ==
    /\ last.op = "retrieve_context"
    /\ last.limit = 0
    /\ Succeeded(last)
    /\ Cardinality(rows) > 5
    /\ Len(last.resp.results) = 5

\* C15 as claimed: every row of the table has a non-empty summary.
C15_SummaryNeverEmpty ==
    \A r \in rows : r.summary_text # EmptyText

\* C16 as claimed, for the blobs that decode: after any Store and Replace
\* calls, every row's blob that decodes is a vector of exactly Dim values.
C16_EveryBlobHasDimension ==
    \A r \in rows :
        LET dec == BytesToFloat32Slice(r.embedding)
        IN  (~dec.err /\ ~dec.panic) => Len(dec.floats) = Dim

\* C17: a replace_context request with an empty id is answered with status
\* "error" and a non-empty error, calls neither the summarizer, the
\* embedder, the encoder nor the store, and leaves the rows as they were.
C17_ReplaceEmptyIdRejected ==
    [][ (last'.op = "replace_context" /\ last'.id = EmptyID)
        => /\ last'.resp.status = "error"
           /\ last'.resp.error # ""
           /\ last'.calls = <<>>
           /\ rows' = rows
      ]_vars

\* a replace_context with an empty id was rejected on a table that has rows
C17_Witness ==
    /\ last.op = "replace_context"
    /\ last.id = EmptyID
    /\ last.resp.status = "error"
    /\ last.calls = <<>>
    /\ rows # {}

\* C18 as claimed: at no time are two goroutines inside a method of the
\* store, so no store operation overlaps another and at most one write is
\* in flight.
C18_StoreCallsSerialized ==
    Cardinality(InStore) <= 1

\* the limit Search works with
EffectiveLimit(req) == IF req.limit <= 0 THEN DefaultRetrieveLimit ELSE req.limit

\* C19: the row of a successful save_context or replace_context is in the
\* table when the request returns; a row leaves the table only by a
\* delete_context or clear_all_context request or by a successful write
\* under its own id (a replace_context, or a save_context whose generated id
\* is the row's); and every successful retrieve_context whose limit is at
\* least the number of rows returns the summary of every row of the table.
C19_ReadYourWrites ==
    /\ [][ (last'.op \in {"save_context", "replace_context"} /\ Succeeded(last'))
           => WrittenRow(last', now') \in rows' ]_vars
    /\ [][ \A r \in rows :
             r \notin rows'
             => \/ last'.op \in {"delete_context", "clear_all_context"}
                \/ /\ last'.op \in {"save_context", "replace_context"}
                   /\ Succeeded(last')
                   /\ WrittenID(last') = r.id ]_vars
    /\ []( ( /\ last.op = "retrieve_context"
             /\ Succeeded(last)
             /\ EffectiveLimit(last) >= Cardinality(rows) )
           => \A r \in rows : InResults(last, r.summary_text) )

\* a retrieve_context with limit 2 returned the summaries of both rows of the table
C19_Witness ==
    /\ last.op = "retrieve_context"
    /\ Succeeded(last)
    /\ last.limit = 2
    /\ Cardinality(rows) = 2
    /\ \E r1, r2 \in rows :
         /\ r1.summary_text # r2.summary_text
         /\ InResults(last, r1.summary_text)
         /\ InResults(last, r2.summary_text)

\* C20: a Store, Replace or Delete call that returns an error leaves the
\* table as it was before the call, and a Clear call leaves the table as it
\* was when it returns an error and empty when it does not.
C20_FailedCallLeavesContents ==
    [][ /\ (last'.op \in {"Store", "Replace", "Delete"} /\ last'.err)
           => rows' = rows
        /\ last'.op = "Clear"
           => rows' = (IF last'.err THEN rows ELSE {}) ]_vars

\* a Store call on the id of a stored row returned an error and the row is
\* still in the table
C20_Witness ==
    /\ last.op = "Store"
    /\ last.err
    /\ \E r \in rows : r.id = last.id

\* the id a request targets: the id it names, or for save_context the id
\* generated for the new row
TargetID(req) == WrittenID(req)

\* C21: a save_context, replace_context or delete_context request leaves
\* every row whose id differs from the id it targets as it was: the same
\* rows with other ids, with the same summary, embedding and timestamp, are
\* in the table before and after the request.
C21_OtherRowsUnchanged ==
    [][ last'.op \in {"save_context", "replace_context", "delete_context"}
        => {r \in rows : r.id # TargetID(last')}
             = {r \in rows' : r.id # TargetID(last')} ]_vars

\* a replace_context changed the summary of its row while the table held a
\* row with another id
C21_Witness ==
    /\ last.op = "replace_context"
    /\ Succeeded(last)
    /\ last.removed # {}
    /\ Summary(last.text) \notin last.removed
    /\ \E r \in rows : r.id # last.id

---------------------------------------------------------------------------
(* The life of one SQLiteContextStore: created, initialized, used, closed  *)

\* the store object and its latest call: conn is the field s.conn ("nil"
\* before a connection is opened, "open", "closed" once the connection was
\* closed, "dead" once a call has brought the process down), closeCalled
\* tells whether Close has returned without an error
Handle(conn, closeCalled, call) ==
    [conn |-> conn, closeCalled |-> closeCalled, call |-> call]

\* what a call on a connection that was closed can do: the store checks
\* nothing and hands the closed connection to the driver, whose use after
\* close is undefined; the call returns the driver's error or the process
\* crashes
UseAfterClose == {"error", "crash"}

\* NewSQLiteContextStore: no connection yet
LifecycleInit ==
    /\ rows = {}
    /\ now = 0
    /\ last = Handle("nil", FALSE,
                     StoreCall("NewSQLiteContextStore", EmptyID, EmptyText, 0,
                               FALSE, FALSE, FALSE, <<>>, 0))

\* Initialize: opening the database fails and s.conn stays nil, or
\* createTable fails and the connection just assigned to s.conn is closed,
\* or the store is ready
InitializeStore ==
    /\ last.conn = "nil"
    /\ ~last.closeCalled
    /\ \E outcome \in {"nil", "closed", "open"} :
         last' = Handle(outcome, FALSE,
                        StoreCall("Initialize", EmptyID, EmptyText, 0,
                                  outcome # "open", outcome # "open", FALSE, <<>>, 0))
    /\ UNCHANGED <<rows, now>>

\* Store or Search on the open connection
UseStore ==
    /\ last.conn = "open"
    /\ \/ \E id \in StoreIDs, s \in StoreSummaries, e \in {BlobX, BlobY},
             t \in {0, MaxTime}, fail \in BOOLEAN :
            LET out == Store(rows, id, s, e, t, fail)
            IN  /\ rows' = out.rows
                /\ last' = Handle("open", last.closeCalled,
                                  StoreCall("Store", id, EmptyText, 0, fail,
                                            out.err, FALSE, <<>>, 0))
       \/ \E query \in StoreQueries, limit \in {1, 2}, fail \in BOOLEAN :
            \E out \in Search(rows, CreateEmbedding(query), limit, fail) :
                /\ rows' = rows
                /\ last' = Handle("open", last.closeCalled,
                                  StoreCall("Search", EmptyID, query, limit, fail,
                                            out.err, out.panic, out.results, 0))
    /\ UNCHANGED now

\* Close: nothing to close when s.conn is nil; otherwise the driver closes
\* the connection, or fails to and leaves it open; s.conn keeps pointing
\* to the connection either way
CloseStore ==
    /\ last.conn \in {"nil", "open"}
    /\ \E fail \in BOOLEAN :
         /\ fail => last.conn = "open"
         /\ last' = Handle(IF last.conn = "nil" THEN "nil"
                           ELSE IF fail THEN "open" ELSE "closed",
                           last.closeCalled \/ ~fail,
                           StoreCall("Close", EmptyID, EmptyText, 0, fail, fail,
                                     FALSE, <<>>, 0))
    /\ UNCHANGED <<rows, now>>

\* Store or Search after Close: s.conn.Prepare on a nil connection is a nil
\* pointer dereference; on a closed connection it is a use after close
UseClosedStore ==
    /\ last.closeCalled
    /\ last.conn \in {"nil", "closed"}
    /\ \E op \in {"Store", "Search"}, id \in StoreIDs :
         \E outcome \in IF last.conn = "nil" THEN {"crash"} ELSE UseAfterClose :
           last' = Handle(IF outcome = "crash" THEN "dead" ELSE last.conn, TRUE,
                          StoreCall(op, IF op = "Store" THEN id ELSE EmptyID,
                                    EmptyText, IF op = "Search" THEN 1 ELSE 0,
                                    FALSE, outcome = "error", outcome = "crash",
                                    <<>>, 0))
    /\ UNCHANGED <<rows, now>>

LifecycleNext ==
    \/ InitializeStore
    \/ UseStore
    \/ CloseStore
    \/ UseClosedStore

LifecycleSpec == LifecycleInit /\ [][LifecycleNext]_vars

\* C22: once Close has returned without an error, every Store or Search
\* call returns an error and does not bring the process down.
C22_CallsAfterCloseFail ==
    (last.closeCalled /\ last.call.op \in {"Store", "Search"})
        => (last.call.err /\ ~last.call.panic)

---------------------------------------------------------------------------
(* The library API: Server.RetrieveContext over the store                  *)

\* Server.RetrieveContext(query, limit): the limit goes to Search as the
\* caller gave it
ServerRetrieveContext(table, query, limit, embFail, storeFail) ==
    IF embFail
    THEN {[err |-> TRUE, panic |-> FALSE, results |-> <<>>]}
    ELSE Search(table, CreateEmbedding(query), limit, storeFail)

CallServerRetrieve ==
    \E query \in StoreQueries, limit \in Limits, fail \in {"none", "embedder", "store"} :
      \E out \in ServerRetrieveContext(rows, query, limit,
                                        fail = "embedder", fail = "store") :
          /\ last' = StoreCall("RetrieveContext", EmptyID, query, limit,
                               fail # "none", out.err, out.panic, out.results, 0)
          /\ UNCHANGED <<rows, now>>

LibraryNext ==
    \/ CallStore
    \/ CallServerRetrieve

LibrarySpec == StoreInit /\ [][LibraryNext]_vars

\* C23: no call ends in a panic, whatever limit the caller gives and
\* whatever blobs the rows hold.
C23_NoPanicOnClientInput == ~last.panic

---------------------------------------------------------------------------
(* Store calls with their arguments kept, to compare with the row written  *)

\* the latest Store call: its four arguments and whether it returned an error
PutCall(id, summaryText, embedding, timestamp, err) ==
    [op |-> "Store", id |-> id, summary_text |-> summaryText,
     embedding |-> embedding, timestamp |-> timestamp, err |-> err]

RoundTripInit ==
    /\ rows = {}
    /\ now = 0
    /\ last = [op |-> "none", id |-> EmptyID, summary_text |-> EmptyText,
               embedding |-> <<>>, timestamp |-> 0, err |-> FALSE]

\* Store(id, summaryText, embedding, timestamp) with any instant of the clock
PutRow ==
    \E id \in StoreIDs, s \in StoreSummaries, e \in Blobs,
       t \in 0..MaxTime, fail \in BOOLEAN :
      LET out == Store(rows, id, s, e, t, fail)
      IN  /\ rows' = out.rows
          /\ last' = PutCall(id, s, e, t, out.err)
          /\ UNCHANGED now

RoundTripSpec == RoundTripInit /\ [][PutRow]_vars

\* the rows of the table under the id of the latest call
RowsUnder(id) == {r \in rows : r.id = id}

\* C24 as claimed: after a successful Store(id, s, e, t) the one row under
\* id holds s, e and the instant t itself.
C24_Original ==
    (last.op = "Store" /\ ~last.err)
        => \E r \in rows :
             /\ RowsUnder(last.id) = {r}
             /\ r.summary_text = last.summary_text
             /\ r.embedding = last.embedding
             /\ r.timestamp * TicksPerSecond = last.timestamp

\* C24 as amended: after a successful Store(id, s, e, t) the one row under
\* id holds s and e exactly and t cut to whole seconds.
C24_RowRoundTripToTheSecond ==
    (last.op = "Store" /\ ~last.err)
        => \E r \in rows :
             /\ RowsUnder(last.id) = {r}
             /\ r.summary_text = last.summary_text
             /\ r.embedding = last.embedding
             /\ r.timestamp = last.timestamp \div TicksPerSecond

\* a Store at an instant that is not a whole second succeeded
C24_Witness ==
    /\ last.op = "Store"
    /\ ~last.err
    /\ last.timestamp % TicksPerSecond # 0
    /\ \E r \in rows : r.id = last.id /\ r.embedding = last.embedding

---------------------------------------------------------------------------
(* internal/vector as pure functions: inputs drawn at the start, one       *)
(* application per step                                                    *)

\* longest vector given to the codec, and longest blob in 4-byte words
\* after the prefix
MaxVectorLen == 3

\* longest vector given to CosineSimilarity
MaxPairLen == 2

\* all sequences over a set of length at most n
RECURSIVE SeqsUpTo(_, _)
SeqsUpTo(S, n) ==
    IF n = 0 THEN {<<>>}
    ELSE LET shorter == SeqsUpTo(S, n - 1)
         IN  shorter \cup {Append(q, x) : q \in {p \in shorter : Len(p) = n - 1}, x \in S}

\* float32 vectors the codec is given
CodecVectors == SeqsUpTo({-1, 0, 1}, MaxVectorLen)

\* blobs the decoder is given, as 4-byte words: any prefix from -1 to 2
\* followed by any number of words up to MaxVectorLen
CodecBlobs == SeqsUpTo({-1, 0, 1, 2}, MaxVectorLen + 1)

\* a float32 value of CosineSimilarity's arguments: k, or k * 2^-80 when
\* tiny.  The product of two tiny values is below the smallest float32
\* and is computed as 0; a tiny value added to a non-zero value that is
\* not tiny is lost.
F32(k, tiny) == [k |-> k, tiny |-> tiny /\ k # 0]

Mul32(x, y) ==
    IF x.tiny /\ y.tiny THEN F32(0, FALSE)
    ELSE F32(x.k * y.k, x.tiny \/ y.tiny)

Add32(x, y) ==
    IF x.tiny = y.tiny THEN F32(x.k + y.k, x.tiny)
    ELSE IF x.tiny THEN (IF y.k = 0 THEN x ELSE y)
    ELSE (IF x.k = 0 THEN y ELSE x)

RECURSIVE SumTo32(_, _)
SumTo32(f, n) == IF n = 0 THEN F32(0, FALSE) ELSE Add32(SumTo32(f, n - 1), f[n])

\* mutant: the norms are not checked
CosineSimilarity32_NoZeroCheck(a, b) ==
    IF Len(a) # Len(b) THEN [err |-> TRUE, dotProduct |-> F32(0, FALSE)]
    ELSE [err |-> FALSE,
          dotProduct |-> SumTo32([i \in 1..Len(a) |-> Mul32(a[i], b[i])], Len(a))]

\* CosineSimilarity in float32 arithmetic: the error or the dot product
\* the similarity is computed from
CosineSimilarity32(a, b) ==
    IF Len(a) # Len(b) THEN [err |-> TRUE, dotProduct |-> F32(0, FALSE)]
    ELSE
      LET dotProduct == SumTo32([i \in 1..Len(a) |-> Mul32(a[i], b[i])], Len(a))
          normA == SumTo32([i \in 1..Len(a) |-> Mul32(a[i], a[i])], Len(a))
          normB == SumTo32([i \in 1..Len(a) |-> Mul32(b[i], b[i])], Len(a))
      IN  IF normA.k = 0 \/ normB.k = 0
          THEN [err |-> TRUE, dotProduct |-> F32(0, FALSE)]
          ELSE [err |-> FALSE, dotProduct |-> dotProduct]

\* vectors CosineSimilarity is given: components 0, 1, -1 and 2^-80
PairVectors ==
    SeqsUpTo({F32(0, FALSE), F32(1, FALSE), F32(-1, FALSE), F32(1, TRUE)}, MaxPairLen)

\* an input and what was computed from it
Applied(fn, arg, out) == [fn |-> fn, arg |-> arg, out |-> out]

NotApplied == [err |-> FALSE, panic |-> FALSE, floats |-> <<>>]

VectorInputs ==
    {[kind |-> "vector", v |-> v] : v \in CodecVectors}
      \cup {[kind |-> "blob", data |-> d] : d \in CodecBlobs}
      \cup {[kind |-> "pair", a |-> a, b |-> b] : a \in PairVectors, b \in PairVectors}

VectorInit ==
    /\ rows = {}
    /\ now = 0
    /\ last \in {Applied("none", x, NotApplied) : x \in VectorInputs}

\* Float32SliceToBytes(v): the code returns an error only when the
\* buffer write fails, which a bytes.Buffer does not
Encode ==
    /\ last.fn = "none"
    /\ last.arg.kind = "vector"
    /\ last' = Applied("Float32SliceToBytes", last.arg,
                       [err |-> FALSE, panic |-> FALSE,
                        floats |-> Float32SliceToBytes(last.arg.v)])
    /\ UNCHANGED <<rows, now>>

\* BytesToFloat32Slice(data)
Decode ==
    /\ last.fn = "none"
    /\ last.arg.kind = "blob"
    /\ last' = Applied("BytesToFloat32Slice", last.arg,
                       BytesToFloat32Slice(last.arg.data))
    /\ UNCHANGED <<rows, now>>

\* BytesToFloat32Slice(Float32SliceToBytes(v))
RoundTrip ==
    /\ last.fn = "none"
    /\ last.arg.kind = "vector"
    /\ last' = Applied("RoundTrip", last.arg,
                       BytesToFloat32Slice(Float32SliceToBytes(last.arg.v)))
    /\ UNCHANGED <<rows, now>>

\* CosineSimilarity(a, b)
Cosine ==
    /\ last.fn = "none"
    /\ last.arg.kind = "pair"
    /\ last' = Applied("CosineSimilarity", last.arg,
                       CosineSimilarity32(last.arg.a, last.arg.b))
    /\ UNCHANGED <<rows, now>>

VectorNext ==
    \/ Encode
    \/ Decode
    \/ RoundTrip
    \/ Cosine

VectorSpec == VectorInit /\ [][VectorNext]_vars

\* C25: for every vector v, the empty one included,
\* BytesToFloat32Slice(Float32SliceToBytes(v)) returns no error, does not
\* panic and returns v.
C25_CodecRoundTrip ==
    last.fn = "RoundTrip"
        => (~last.out.err /\ ~last.out.panic /\ last.out.floats = last.arg.v)

\* the empty vector went through the codec and came back
C25_Witness ==
    /\ last.fn = "RoundTrip"
    /\ last.arg.v = <<>>
    /\ ~last.out.err
    /\ last.out.floats = <<>>

\* the prefix of a blob and the number of 4-byte words that follow it
Prefix(data) == data[1]

Payload(data) == Len(data) - 1

\* C26: BytesToFloat32Slice returns an error for every blob whose prefix
\* differs from the number of words that follow it, and for every blob
\* whose prefix is zero or negative.
C26_DecodeRejectsBadPrefix ==
    ( /\ last.fn = "BytesToFloat32Slice"
      /\ Len(last.arg.data) >= 1
      /\ \/ Prefix(last.arg.data) # Payload(last.arg.data)
         \/ Prefix(last.arg.data) <= 0 )
        => last.out.err

\* a vector none of whose components has a non-zero square in float32
NoSquare(v) == \A i \in 1..Len(v) : v[i].k = 0 \/ v[i].tiny

\* a vector all of whose components are zero
ZeroVector(v) == \A i \in 1..Len(v) : v[i].k = 0

\* C27 as claimed: CosineSimilarity(a, b) returns an error exactly when the
\* lengths differ or one of the vectors is a zero vector.
C27_Original ==
    last.fn = "CosineSimilarity"
        => (last.out.err <=> \/ Len(last.arg.a) # Len(last.arg.b)
                             \/ ZeroVector(last.arg.a)
                             \/ ZeroVector(last.arg.b))

\* C27 as amended: CosineSimilarity(a, b) returns an error exactly when the
\* lengths differ or one of the vectors has no component whose square is
\* non-zero in float32: a zero vector, or a vector of components so small
\* that their squares underflow to zero.
C27_CosineErrors ==
    last.fn = "CosineSimilarity"
        => (last.out.err <=> \/ Len(last.arg.a) # Len(last.arg.b)
                             \/ NoSquare(last.arg.a)
                             \/ NoSquare(last.arg.b))

\* CosineSimilarity returned an error for two vectors of equal length of
\* which one is not a zero vector but has only components whose squares
\* underflow
C27_Witness ==
    /\ last.fn = "CosineSimilarity"
    /\ last.out.err
    /\ Len(last.arg.a) = Len(last.arg.b)
    /\ ~ZeroVector(last.arg.a)
    /\ NoSquare(last.arg.a)
    /\ ~NoSquare(last.arg.b)

---------------------------------------------------------------------------
(* BasicSummarizer as a pure function, and save_context of the same text   *)

\* longest text given to the summarizer
MaxTextLen == 5

\* texts of letters, sentence terminators and spaces
SummarizerTexts == SeqsUpTo({"a", ".", " "}, MaxTextLen)

\* arguments of NewBasicSummarizer: 0 selects the default of 200
SummarizerMaxima == 0..MaxSummaryLen

SummarizerInit ==
    /\ rows = {}
    /\ now = 0
    /\ last \in {Applied("none", [text |-> t, max |-> m], <<>>) :
                   t \in SummarizerTexts, m \in SummarizerMaxima}

\* NewBasicSummarizer(max).Summarize(text)
ApplySummarize ==
    /\ last.fn = "none"
    /\ last' = Applied("Summarize", last.arg,
                       Summarize(last.arg.text, NewBasicSummarizer(last.arg.max)))
    /\ UNCHANGED <<rows, now>>

\* save_context of the text on a server built with a summarizer of
\* MaxSummaryLen; the response is kept
SaveSummarized ==
    /\ last.fn = "none"
    /\ last.arg.max = MaxSummaryLen
    /\ \E fail \in Failures :
         LET out == handleSaveContext(rows, now, last.arg.text, now,
                                      fail = "summarizer", fail = "embedder",
                                      fail = "store")
         IN  /\ rows' = out.rows
             /\ now' = out.now
             /\ last' = Applied("save_context", last.arg, out.resp)

SummarizerNext ==
    \/ ApplySummarize
    \/ SaveSummarized

SummarizerSpec == SummarizerInit /\ [][SummarizerNext]_vars

\* C28: for every text and every maximum a summarizer is built with, the
\* summary is no longer than the summarizer's maximum.
C28_SummaryWithinMaximum ==
    last.fn = "Summarize"
        => Len(last.out) <= NewBasicSummarizer(last.arg.max)

\* C29: a text no longer than the summarizer's maximum is returned by
\* Summarize unchanged, and a successful save_context of such a text
\* leaves one row, under the id returned, whose summary is the text.
C29_ShortTextKept ==
    /\ (last.fn = "Summarize"
          /\ Len(last.arg.text) <= NewBasicSummarizer(last.arg.max))
         => last.out = last.arg.text
    /\ (last.fn = "save_context"
          /\ last.out.status = "success"
          /\ Len(last.arg.text) <= NewBasicSummarizer(MaxSummaryLen))
         => \E r \in rows :
              /\ rows = {r}
              /\ r.id = last.out.id
              /\ r.summary_text = last.arg.text

\* a text exactly as long as the maximum that holds a sentence terminator
\* and a space was saved, and its row holds it whole
C29_Witness ==
    /\ last.fn = "save_context"
    /\ last.out.status = "success"
    /\ Len(last.arg.text) = MaxSummaryLen
    /\ \E i, j \in 1..Len(last.arg.text) :
         last.arg.text[i] = "." /\ last.arg.text[j] = " "
    /\ \E r \in rows : r.summary_text = last.arg.text

---------------------------------------------------------------------------
(* cmd/projectmemory/main.go: the process from start to exit               *)

\* the process: where main is, where the goroutine of setupSignalHandler
\* is ("none" before it is started), whether store.Close was called, and
\* why the process has exited ("running" while it has not)
Process(main, handler, closed, exit) ==
    [main |-> main, handler |-> handler, closed |-> closed, exit |-> exit]

Running == last.exit = "running"

\* main has loaded its configuration and is about to open the store
ProcessInit ==
    /\ rows = {}
    /\ now = 0
    /\ last = Process("initStore", "none", FALSE, "running")

\* store.Initialize fails: Fatal exits, and there is no open store
StoreInitFails ==
    /\ Running
    /\ last.main = "initStore"
    /\ last' = Process("exited", last.handler, FALSE, "initFailed")
    /\ UNCHANGED <<rows, now>>

\* store.Initialize succeeds, defer store.Close() is registered, and the
\* summarizer, the embedder and the server are initialized
StoreInitOK ==
    /\ Running
    /\ last.main = "initStore"
    /\ last' = Process("setupSignalHandler", last.handler, FALSE, "running")
    /\ UNCHANGED <<rows, now>>

\* setupSignalHandler: signal.Notify and the goroutine waiting on the channel
SetupSignalHandler ==
    /\ Running
    /\ last.main = "setupSignalHandler"
    /\ last' = Process("start", "waiting", FALSE, "running")
    /\ UNCHANGED <<rows, now>>

\* srv.Start() begins to serve requests from standard input
StartServing ==
    /\ Running
    /\ last.main = "start"
    /\ last' = [last EXCEPT !.main = "serving"]
    /\ UNCHANGED <<rows, now>>

\* a save_context or delete_context request is served
ServeRequest ==
    /\ Running
    /\ last.main = "serving"
    /\ ~last.closed
    /\ \/ \E text \in Texts, t \in now..MaxTime :
            LET out == handleSaveContext(rows, now, text, t, FALSE, FALSE, FALSE)
            IN  /\ Cardinality(out.rows) <= MaxRows
                /\ rows' = out.rows
                /\ now' = out.now
       \/ \E r \in rows :
            LET out == handleDeleteContext(rows, now, r.id, FALSE)
            IN  /\ rows' = out.rows
                /\ now' = out.now
    /\ UNCHANGED last

\* srv.Start() returns an error, at once or while serving: Fatal logs and
\* calls os.Exit(1), which runs no deferred call
StartFails ==
    /\ Running
    /\ last.main \in {"start", "serving"}
    /\ last' = [last EXCEPT !.main = "exited", !.exit = "startFailed"]
    /\ UNCHANGED <<rows, now>>

\* standard input ends: srv.Start() returns nil, main returns, the
\* deferred store.Close() runs and the process exits
EndOfInput ==
    /\ Running
    /\ last.main = "serving"
    /\ last' = [last EXCEPT !.main = "exited", !.closed = TRUE, !.exit = "eof"]
    /\ UNCHANGED <<rows, now>>

\* SIGINT or SIGTERM arrives before signal.Notify: the runtime ends the
\* process, no deferred call runs
SignalBeforeHandler ==
    /\ Running
    /\ last.handler = "none"
    /\ last.main = "setupSignalHandler"
    /\ last' = [last EXCEPT !.main = "exited", !.exit = "signal"]
    /\ UNCHANGED <<rows, now>>

\* SIGINT or SIGTERM arrives at the channel of the handler goroutine
SignalReceived ==
    /\ Running
    /\ last.handler = "waiting"
    /\ last' = [last EXCEPT !.handler = "closing"]
    /\ UNCHANGED <<rows, now>>

\* the handler goroutine calls store.Close()
HandlerCloses ==
    /\ Running
    /\ last.handler = "closing"
    /\ last' = [last EXCEPT !.handler = "exiting", !.closed = TRUE]
    /\ UNCHANGED <<rows, now>>

\* the handler goroutine calls os.Exit(0)
HandlerExits ==
    /\ Running
    /\ last.handler = "exiting"
    /\ last' = [last EXCEPT !.main = "exited", !.handler = "done", !.exit = "signal"]
    /\ UNCHANGED <<rows, now>>

ProcessNext ==
    \/ StoreInitFails
    \/ StoreInitOK
    \/ SetupSignalHandler
    \/ StartServing
    \/ ServeRequest
    \/ StartFails
    \/ EndOfInput
    \/ SignalBeforeHandler
    \/ SignalReceived
    \/ HandlerCloses
    \/ HandlerExits

ProcessSpec == ProcessInit /\ [][ProcessNext]_vars

\* C30: when the process has exited by the end of its input, by a failure
\* of the server's start or by SIGINT or SIGTERM, store.Close was called.
C30_StoreClosedOnShutdown ==
    last.exit \in {"eof", "startFailed", "signal"} => last.closed

---------------------------------------------------------------------------
(* internal/summarizer/ai_summarizer.go and providers: the AISummarizer    *)

\* s.maxRetries, s.cache.capacity and s.cache.ttl (in clock ticks)
MaxRetries == 1
CacheCapacity == 2
CacheTTL == 1

\* the providers GetProvider knows
ProviderNames == {"anthropic", "openai", "google", "xai"}

\* the elements of a sequence
Range(q) == {q[i] : i \in DOMAIN q}

\* all orders in which the elements of a set may be enumerated
RECURSIVE Enumerations(_)
Enumerations(S) ==
    IF S = {} THEN {<<>>}
    ELSE UNION {{<<x>> \o q : q \in Enumerations(S \ {x})} : x \in S}

RECURSIVE Filter(_, _)
Filter(q, keep) ==
    IF q = <<>> THEN <<>>
    ELSE (IF Head(q) \in keep THEN <<Head(q)>> ELSE <<>>) \o Filter(Tail(q), keep)

\* loadConfigFromEnvironment: the names kept as fallback providers, in the
\* order of AI_SUMMARIZER_FALLBACK_ORDER: those that are not the primary
\* and have an API key
FallbackNames(primary, keys, order) == Filter(order, keys \ {primary})

\* ProviderFactory.GetProviderChain: the configured providers named in
\* preferenceOrder, as often as they are named, then every configured
\* provider not named there, in the order the map is ranged over
GetProviderChain(configured, preferenceOrder) ==
    {Filter(preferenceOrder, configured) \o rest :
       rest \in Enumerations(configured \ Range(preferenceOrder))}

\* Initialize: the provider configurations are the primary and the
\* fallbacks; the chains s.fallbackProviders may be set to
InitializeChains(primary, keys, order) ==
    LET fallbacks == FallbackNames(primary, keys, order)
    IN  GetProviderChain({primary} \cup Range(fallbacks), fallbacks)

\* what a provider returns for a text
ProviderSummary(name, text) == <<name>> \o text

\* what one pass of the retry loop meets: the context is done, or the
\* provider is called and returns a summary or an error
AttemptOutcomes == {"canceled", "ok", "error"}

\* the outcomes of the passes of one summarizeWithRetries call: a pass is
\* reached when every pass before it called the provider and got an error
RetryPlans ==
    {plan \in [1..(MaxRetries + 1) -> AttemptOutcomes \cup {"unreached"}] :
       \A i \in DOMAIN plan :
         plan[i] = "unreached" <=> \E j \in 1..(i - 1) : plan[j] # "error"}

\* summarizeWithRetries from pass attempt on: calls counts the calls of
\* the provider so far, lastErr is the latest provider error
RECURSIVE retryFrom(_, _, _, _, _, _)
retryFrom(name, text, plan, attempt, calls, lastErr) ==
    IF attempt > MaxRetries
    THEN [summary |-> <<>>, err |-> lastErr, calls |-> calls]
    ELSE IF plan[attempt + 1] = "canceled"
    THEN [summary |-> <<>>, err |-> "context canceled", calls |-> calls]
    ELSE IF plan[attempt + 1] = "ok"
    THEN [summary |-> ProviderSummary(name, text), err |-> "", calls |-> calls + 1]
    ELSE retryFrom(name, text, plan, attempt + 1, calls + 1, "provider error")

\* summarizeWithRetries(ctx, text) with s.provider = name
summarizeWithRetries(name, text, plan) == retryFrom(name, text, plan, 0, 0, "")

\* the cache: a set of items, at most one per key; the key is the SHA-256
\* digest of the text, which is kept as the text itself
CacheItem(text, summary, expireAt) ==
    [key |-> text, summary |-> summary, expireAt |-> expireAt]

\* checkCache at the clock reading clock
checkCache(cache, text, clock) ==
    LET hits == {item \in cache : item.key = text /\ clock < item.expireAt}
    IN  IF hits = {} THEN [found |-> FALSE, summary |-> <<>>]
        ELSE [found |-> TRUE, summary |-> (CHOOSE item \in hits : TRUE).summary]

\* mutant: nothing is evicted when the cache is full
cacheResult_NoEviction(cache, text, summary, clock) ==
    {{item \in cache : item.key # text}
       \cup {CacheItem(text, summary, clock + CacheTTL)}}

\* cacheResult at the clock reading clock: when the cache is at capacity
\* the first item the map happens to range over is deleted, then the item
\* is stored under its key
cacheResult(cache, text, summary, clock) ==
    LET afterEviction ==
          IF Cardinality(cache) >= CacheCapacity
          THEN {cache \ {victim} : victim \in cache}
          ELSE {cache}
    IN  {{item \in c : item.key # text}
           \cup {CacheItem(text, summary, clock + CacheTTL)} : c \in afterEviction}


\* an initialized AISummarizer: s.provider, s.fallbackProviders, s.cache.items
AISummarizer(provider, fallbackProviders, cache) ==
    [provider |-> provider, fallbackProviders |-> fallbackProviders,
     cache |-> cache]

RECURSIVE Repeat(_, _)
Repeat(x, n) == IF n <= 0 THEN <<>> ELSE <<x>> \o Repeat(x, n - 1)

RECURSIVE ProviderCalls(_, _, _)
ProviderCalls(chain, attempts, n) ==
    IF n = 0 THEN <<>>
    ELSE ProviderCalls(chain, attempts, n - 1)
           \o Repeat(chain[n], attempts[n].calls)

\* what Summarize returns and leaves: the summary and error, the cache,
\* the provider of each provider call in order, the provider and the error
\* of each summarizeWithRetries call in order, whether the cache answered,
\* and whether a pass of a retry loop found its context done
Summarized(summary, err, cache, calls, loops, hit, canceled) ==
    [summary |-> summary, err |-> err, cache |-> cache, calls |-> calls,
     loops |-> loops, hit |-> hit, canceled |-> canceled]

\* mutant: the fallback providers are skipped
AISummarize_NoFallback(s, text, clock, plans) ==
    LET cached == checkCache(s.cache, text, clock)
        r == summarizeWithRetries(s.provider, text, plans[1])
        summary == IF r.err = "" THEN r.summary
                   ELSE Summarize(text, NewBasicSummarizer(MaxSummaryLen))
    IN  IF cached.found
        THEN {Summarized(cached.summary, "", s.cache, <<>>, <<>>, TRUE, FALSE)}
        ELSE {Summarized(summary, "", c, Repeat(s.provider, r.calls),
                         <<[provider |-> s.provider, err |-> r.err]>>, FALSE,
                         r.err = "context canceled") :
                c \in cacheResult(s.cache, text, summary, clock)}

\* mutant: the cache is not consulted
AISummarize_NoCacheCheck(s, text, clock, plans) ==
    LET r == summarizeWithRetries(s.provider, text, plans[1])
        summary == IF r.err = "" THEN r.summary
                   ELSE Summarize(text, NewBasicSummarizer(MaxSummaryLen))
    IN  {Summarized(summary, "", c, Repeat(s.provider, r.calls),
                    <<[provider |-> s.provider, err |-> r.err]>>, FALSE,
                    r.err = "context canceled") :
           c \in cacheResult(s.cache, text, summary, clock)}

\* AISummarizer.Summarize(text) on an initialized summarizer, calls of one
\* text at a time; plans[i] is what the retry loop of the i-th provider
\* tried meets, the primary first and then the fallback chain
AISummarize(s, text, clock, plans) ==
    LET cached == checkCache(s.cache, text, clock)
        chain == <<s.provider>> \o s.fallbackProviders
        attempts == [i \in DOMAIN chain |->
                       summarizeWithRetries(chain[i], text, plans[i])]
        ok == {i \in DOMAIN chain : attempts[i].err = ""}
        tried == IF ok = {} THEN Len(chain)
                 ELSE CHOOSE i \in ok : \A j \in ok : i <= j
        summary == IF ok = {} THEN Summarize(text, NewBasicSummarizer(MaxSummaryLen))
                   ELSE attempts[tried].summary
        loops == [i \in 1..tried |->
                    [provider |-> chain[i], err |-> attempts[i].err]]
        canceled == \E i \in 1..tried : attempts[i].err = "context canceled"
    IN  IF cached.found
        THEN {Summarized(cached.summary, "", s.cache, <<>>, <<>>, TRUE, FALSE)}
        ELSE {Summarized(summary, "", c, ProviderCalls(chain, attempts, tried),
                         loops, FALSE, canceled) :
                c \in cacheResult(s.cache, text, summary, clock)}

---------------------------------------------------------------------------
(* a server built with an AISummarizer                                     *)

\* longest fallback chain of the summarizers considered
MaxChain == 2

AITexts == {TextA, TextB, LongText}

\* the outcomes of the retry loops of one Summarize call
AIPlans == [1..(MaxChain + 1) -> RetryPlans]

\* the summarizers Initialize builds with anthropic as the primary and
\* openai, which has an API key, as the fallback order
AISummarizers ==
    {AISummarizer("anthropic", chain, {}) :
       chain \in InitializeChains("anthropic", {"anthropic", "openai"},
                                  <<"openai">>)}

\* the context_text of the save_context requests
AISavedTexts == {LongText}

AICall(s, op, text, res, resp) ==
    [s |-> s, op |-> op, text |-> text, res |-> res, resp |-> resp]

AIInit ==
    /\ rows = {}
    /\ now = 0
    /\ last \in {AICall(s, "none", <<>>,
                        Summarized(<<>>, "", {}, <<>>, <<>>, FALSE, FALSE),
                        SuccessResponse) : s \in AISummarizers}

\* s.Summarize(text)
AISummarizeCall ==
    \E text \in AITexts, plans \in AIPlans :
      \E res \in AISummarize(last.s, text, now, plans) :
        /\ last' = AICall([last.s EXCEPT !.cache = res.cache], "Summarize",
                          text, res, SuccessResponse)
        /\ UNCHANGED <<rows, now>>

\* save_context on the server: handleSaveContext with s as its summarizer
AISaveContext ==
    \E text \in AISavedTexts, plans \in AIPlans, fail \in Failures \ {"summarizer"} :
      \E res \in AISummarize(last.s, text, now, plans) :
        LET out == handleSaveContextWith(rows, now, text, res.summary, now,
                                         res.err # "", fail = "embedder",
                                         fail = "store")
        IN  /\ Cardinality(out.rows) <= MaxRows
            /\ rows' = out.rows
            /\ last' = AICall([last.s EXCEPT !.cache = res.cache],
                              "save_context", text, res, out.resp)
            /\ UNCHANGED now

\* time passes
AITick ==
    /\ now < MaxTime
    /\ now' = now + 1
    /\ UNCHANGED <<rows, last>>

\* the summarizer on its own, over time
AINext ==
    \/ AISummarizeCall
    \/ AITick

AISpec == AIInit /\ [][AINext]_vars

\* the server saving through the summarizer
AIServerNext == AISaveContext

AIServerSpec == AIInit /\ [][AIServerNext]_vars


\* C31: when a retry loop of the summarizer finds its context cancelled or
\* timed out during a save_context, the request fails with the
\* cancellation error, and the store is unchanged.
C31_CanceledSurfaces ==
    [][(last'.op = "save_context" /\ last'.res.canceled)
         => /\ last'.resp.status = "error"
            /\ last'.resp.error = Error("failed to summarize text", "context canceled")
            /\ rows' = rows]_vars


---------------------------------------------------------------------------
(* properties of the BasicSummarizer's truncation                          *)

\* 1-based positions among the first n bytes of text that hold one of chars
PositionsIn(text, n, chars) == {i \in 1..n : i <= Len(text) /\ text[i] \in chars}

Last(positions) == CHOOSE i \in positions : \A j \in positions : j <= i

\* the summary of a text longer than the maximum m: the prefix ending at
\* the last terminator within the first m bytes, else the prefix ending
\* before the last space within the first m-3 bytes and "...", else the
\* first m-3 bytes and "..."
TruncationRule(text, m) ==
    LET terminators == PositionsIn(text, m, {".", "?", "!"})
        spaces == PositionsIn(text, m - 3, {" "})
    IN  IF terminators # {} THEN SubSeq(text, 1, Last(terminators))
        ELSE IF spaces # {} THEN SubSeq(text, 1, Last(spaces) - 1) \o Ellipsis
        ELSE SubSeq(text, 1, max(m - 3, 0)) \o Ellipsis

\* C32: for a text longer than the maximum M, Summarize returns the prefix
\* ending at and including the last terminator within the first M bytes;
\* if there is none, the prefix ending before the last space within the
\* first M-3 bytes followed by "..."; otherwise the first M-3 bytes
\* followed by "...".
C32_TruncationRule ==
    (last.fn = "Summarize"
       /\ Len(last.arg.text) > NewBasicSummarizer(last.arg.max))
      => last.out = TruncationRule(last.arg.text, NewBasicSummarizer(last.arg.max))


---------------------------------------------------------------------------
(* Store and Replace called with the same arguments                        *)

\* embedding blobs passed to Store and Replace
AliasBlobs == {BlobX, BlobY}

\* the latest call of Store or Replace: its arguments, whether a row held
\* the id before it, whether its statement failed, and the error returned
WriteCall(op, id, summaryText, embedding, timestamp, present, failed, err) ==
    [op |-> op, id |-> id, summary_text |-> summaryText,
     embedding |-> embedding, timestamp |-> timestamp,
     present |-> present, failed |-> failed, err |-> err]

AliasInit ==
    /\ rows = {}
    /\ now = 0
    /\ last = WriteCall("none", EmptyID, EmptyText, <<>>, 0, FALSE, FALSE, FALSE)

\* Store(id, summaryText, embedding, timestamp)
AliasStore ==
    \E id \in StoreIDs, s \in StoreSummaries, e \in AliasBlobs,
       t \in {0, MaxTime}, fail \in BOOLEAN :
      LET out == Store(rows, id, s, e, t, fail)
      IN  /\ rows' = out.rows
          /\ last' = WriteCall("Store", id, s, e, t, RowsUnder(id) # {},
                               fail, out.err)
          /\ UNCHANGED now

\* Replace(id, summaryText, embedding, timestamp)
AliasReplace ==
    \E id \in StoreIDs, s \in StoreSummaries, e \in AliasBlobs,
       t \in {0, MaxTime}, fail \in BOOLEAN :
      LET out == Replace(rows, id, s, e, t, fail)
      IN  /\ rows' = out.rows
          /\ last' = WriteCall("Replace", id, s, e, t, RowsUnder(id) # {},
                               fail, out.err)
          /\ UNCHANGED now

AliasNext ==
    \/ AliasStore
    \/ AliasReplace

AliasSpec == AliasInit /\ [][AliasNext]_vars

---------------------------------------------------------------------------
(* properties of the AISummarizer                                          *)

\* the providers of the latest call in the order Summarize goes through them
ChainOf(s) == <<s.provider>> \o s.fallbackProviders

\* the latest step was a Summarize that the cache did not answer
Computed == last.op = "Summarize" /\ ~last.res.hit

\* C34: Summarize runs the primary provider and then the fallback
\* providers in chain order, stops at the first that succeeds and returns
\* its summary; when every provider fails it returns the BasicSummarizer's
\* result; it returns a summary and no error for every text.
C34_FallbackChainThenBasic ==
    /\ last.op = "Summarize" => last.res.err = ""
    /\ Computed =>
         LET loops == last.res.loops
             chain == ChainOf(last.s)
             n == Len(loops)
         IN  /\ n \in 1..Len(chain)
             /\ \A i \in 1..n : loops[i].provider = chain[i]
             /\ \A i \in 1..(n - 1) : loops[i].err # ""
             /\ loops[n].err = ""
                  => last.res.summary = ProviderSummary(chain[n], last.text)
             /\ loops[n].err # ""
                  => /\ n = Len(chain)
                     /\ last.res.summary
                          = Summarize(last.text, NewBasicSummarizer(MaxSummaryLen))

\* the primary failed every attempt, the first fallback failed too, and
\* the second fallback's summary was returned
C34_Witness ==
    /\ Computed
    /\ Len(last.res.loops) = 3
    /\ last.res.loops[1].err = "provider error"
    /\ last.res.loops[2].err = "provider error"
    /\ last.res.loops[3].err = ""
    /\ Len(last.res.calls) = 2 * (MaxRetries + 1) + 1
    /\ last.res.summary = ProviderSummary(last.s.fallbackProviders[2], last.text)


---------------------------------------------------------------------------
(* summarizeWithRetries, one step per statement of its loop                *)

\* mutant: the loop makes one pass more
LoopContinues_OneMore(attempt, maxRetries) == attempt <= maxRetries + 1

\* the loop condition attempt <= s.maxRetries
LoopContinues(attempt, maxRetries) == attempt <= maxRetries

\* the error the provider returns at a pass
ProviderError(attempt) == <<"provider error", attempt>>

NoError == <<>>

\* one summarizeWithRetries call: where it is, its provider and text, the
\* loop variable, lastErr, the number of provider calls made, the outcome
\* of each pass so far, and what it returned
RetryLoop(pc, provider, text, attempt, lastErr, calls, passes, summary, err) ==
    [pc |-> pc, provider |-> provider, text |-> text, attempt |-> attempt,
     lastErr |-> lastErr, calls |-> calls, passes |-> passes,
     summary |-> summary, err |-> err]

\* the call has been entered: var lastErr error; attempt := 0
RetryInit ==
    /\ rows = {}
    /\ now = 0
    /\ last \in {RetryLoop("select", name, text, 0, NoError, 0, <<>>, <<>>, NoError) :
                   name \in ProviderNames, text \in AITexts}

\* select on ctx.Done(): return ErrContextCanceled, or go on to the pass
RetrySelect ==
    /\ last.pc = "select"
    /\ \/ last' = [last EXCEPT !.pc = "returned",
                               !.passes = Append(@, "canceled"),
                               !.err = <<"context canceled">>]
       \/ last' = [last EXCEPT !.pc = IF last.attempt > 0 THEN "sleep" ELSE "call"]
    /\ UNCHANGED <<rows, now>>

\* time.Sleep(s.retryDelay * attempt)
RetrySleep ==
    /\ last.pc = "sleep"
    /\ last' = [last EXCEPT !.pc = "call"]
    /\ UNCHANGED <<rows, now>>

\* s.provider.Summarize returns: a summary, which is returned, or an
\* error, which is kept; attempt++ and the loop test follow an error
RetryCall ==
    /\ last.pc = "call"
    /\ \/ last' = [last EXCEPT !.pc = "returned",
                               !.calls = @ + 1,
                               !.passes = Append(@, "ok"),
                               !.summary = ProviderSummary(last.provider, last.text)]
       \/ LET lastErr == ProviderError(last.attempt)
              more == LoopContinues(last.attempt + 1, MaxRetries)
          IN  last' = [last EXCEPT !.pc = IF more THEN "select" ELSE "returned",
                                   !.calls = @ + 1,
                                   !.passes = Append(@, "error"),
                                   !.lastErr = lastErr,
                                   !.attempt = @ + 1,
                                   !.err = IF more THEN NoError ELSE lastErr]
    /\ UNCHANGED <<rows, now>>

RetryNext ==
    \/ RetrySelect
    \/ RetrySleep
    \/ RetryCall

RetrySpec == RetryInit /\ [][RetryNext]_vars

\* every statement of the loop that can run does run: the goroutine is
\* scheduled, the sleep ends and the provider call returns
RetryFairSpec == RetrySpec /\ WF_vars(RetryNext)

\* at most maxRetries + 1 provider calls; a success is returned at once;
\* after maxRetries + 1 failed calls the error of the last one is returned
RetryBounded ==
    /\ last.calls <= MaxRetries + 1
    /\ \A i \in 1..(Len(last.passes) - 1) : last.passes[i] = "error"
    /\ (last.passes # <<>> /\ last.passes[Len(last.passes)] = "ok")
         => /\ last.pc = "returned"
            /\ last.err = NoError
            /\ last.summary = ProviderSummary(last.provider, last.text)
    /\ (last.pc = "returned" /\ last.err = NoError)
         => last.passes[Len(last.passes)] = "ok"
    /\ (last.calls = MaxRetries + 1
          /\ \A i \in DOMAIN last.passes : last.passes[i] = "error")
         => /\ last.pc = "returned"
            /\ last.err = ProviderError(MaxRetries)

\* C35: summarizeWithRetries calls the provider at most maxRetries + 1
\* times, returns the first successful summary without a further attempt,
\* returns the last provider error when every attempt fails, and always
\* returns.
C35_BoundedRetriesTerminate ==
    /\ []RetryBounded
    /\ <>(last.pc = "returned")

\* every attempt failed and the error of the last one was returned
C35_Witness ==
    /\ last.pc = "returned"
    /\ last.calls = MaxRetries + 1
    /\ last.err = ProviderError(MaxRetries)


---------------------------------------------------------------------------
(* the AISummarizer's cache over a sequence of Summarize calls             *)

\* every retry loop of a call meets the same: the provider answers at the
\* first pass, or the provider fails at every pass
PlanAll(outcome) ==
    [i \in 1..(MaxChain + 1) |->
       [j \in 1..(MaxRetries + 1) |->
          IF j = 1 \/ outcome = "error" THEN outcome ELSE "unreached"]]

CachePlans == {PlanAll("ok"), PlanAll("error")}

\* no summary has been computed for the text
NoEntry == [summary |-> <<>>, expireAt |-> 0]

\* the summarizer, its latest call, and for each text the summary the
\* latest call that computed one returned, with the expiry it was cached with
CacheCall(s, op, text, res, returned) ==
    [s |-> s, op |-> op, text |-> text, res |-> res, returned |-> returned]

CacheInit ==
    /\ rows = {}
    /\ now = 0
    /\ last \in {CacheCall(s, "none", <<>>,
                           Summarized(<<>>, "", {}, <<>>, <<>>, FALSE, FALSE),
                           [text \in AITexts |-> NoEntry]) : s \in AISummarizers}

\* s.Summarize(text)
CacheSummarize ==
    \E text \in AITexts, plans \in CachePlans :
      \E res \in AISummarize(last.s, text, now, plans) :
        /\ last' = CacheCall([last.s EXCEPT !.cache = res.cache], "Summarize",
                             text, res,
                             IF res.hit THEN last.returned
                             ELSE [last.returned EXCEPT ![text] =
                                     [summary |-> res.summary,
                                      expireAt |-> now + CacheTTL]])
        /\ UNCHANGED <<rows, now>>

CacheNext ==
    \/ CacheSummarize
    \/ AITick

CacheSpec == CacheInit /\ [][CacheNext]_vars

\* the step is a Summarize call; the clock is read, not moved
SummarizeStep == last'.op = "Summarize" /\ now' = now

\* the entry of the cache c for the text that has not expired at the clock
\* reading t, as a set
Live(c, text, t) == {item \in c : item.key = text /\ t < item.expireAt}

---------------------------------------------------------------------------
(* properties: retrieve_context reads only                                 *)

\* C37: a retrieve_context request leaves the table as it was, the same
\* rows with the same fields, whether it succeeds or fails.
C37_RetrieveLeavesStore ==
    [][last'.op = "retrieve_context" => rows' = rows]_vars

\* a retrieve_context returned the summary of a row, and the row is still
\* in the table
C37_Witness ==
    /\ last.op = "retrieve_context"
    /\ last.resp.status = "success"
    /\ last.resp.results # <<>>
    /\ \E r \in rows : r.summary_text = last.resp.results[1]


---------------------------------------------------------------------------
(* Summarize calls running concurrently on one AISummarizer                *)

\* the primary provider and the fallback chain of the shared summarizer
SharedPrimary == "anthropic"

SharedChain ==
    CHOOSE chain \in InitializeChains(SharedPrimary, {"anthropic", "openai"},
                                      <<"openai">>) : TRUE

\* one Summarize call: where it is, its tempProvider, the index of the
\* fallback provider it is at, the provider its primary attempt called
\* ("" before the attempt), and whether its latest attempt failed
SummarizeCall(pc, tempProvider, fallback, used, failed) ==
    [pc |-> pc, tempProvider |-> tempProvider, fallback |-> fallback,
     used |-> used, failed |-> failed]

\* here last holds s.provider and, for each goroutine, its Summarize call
SwitchInit ==
    /\ rows = {}
    /\ now = 0
    /\ last = [provider |-> SharedPrimary,
               call |-> [g \in Goroutines |->
                           SummarizeCall("start", "", 0, "", FALSE)]]

\* the call misses the cache and runs summarizeWithRetries, which calls
\* s.provider; it returns on success and goes to the fallbacks otherwise
PrimaryAttempt ==
    \E g \in Goroutines, ok \in BOOLEAN :
        /\ last.call[g].pc = "start"
        /\ last' = [last EXCEPT
                      !.call[g] = SummarizeCall(IF ok THEN "returned" ELSE "save",
                                                "", 1, last.provider, ~ok)]
        /\ UNCHANGED <<rows, now>>

\* tempProvider := s.provider
SaveProvider ==
    \E g \in Goroutines :
        /\ last.call[g].pc = "save"
        /\ last' = [last EXCEPT !.call[g].pc = "switch",
                                !.call[g].tempProvider = last.provider]
        /\ UNCHANGED <<rows, now>>

\* s.provider = fallbackProvider
SwitchProvider ==
    \E g \in Goroutines :
        /\ last.call[g].pc = "switch"
        /\ last' = [last EXCEPT !.call[g].pc = "attempt",
                                !.provider = SharedChain[last.call[g].fallback]]
        /\ UNCHANGED <<rows, now>>

\* summarizeWithRetries with the fallback provider
FallbackAttempt ==
    \E g \in Goroutines, ok \in BOOLEAN :
        /\ last.call[g].pc = "attempt"
        /\ last' = [last EXCEPT !.call[g].pc = "restore",
                                !.call[g].failed = ~ok]
        /\ UNCHANGED <<rows, now>>

\* s.provider = tempProvider; then return on success, go to the next
\* fallback, or return the BasicSummarizer's summary after the last one
RestoreProvider ==
    \E g \in Goroutines :
        /\ last.call[g].pc = "restore"
        /\ LET c == last.call[g]
               more == c.failed /\ c.fallback < Len(SharedChain)
           IN  last' = [last EXCEPT
                          !.provider = c.tempProvider,
                          !.call[g].pc = IF more THEN "save" ELSE "returned",
                          !.call[g].fallback = IF more THEN @ + 1 ELSE @]
        /\ UNCHANGED <<rows, now>>

SwitchNext ==
    \/ PrimaryAttempt
    \/ SaveProvider
    \/ SwitchProvider
    \/ FallbackAttempt
    \/ RestoreProvider

SwitchSpec == SwitchInit /\ [][SwitchNext]_vars

\* C38: each call's primary attempt is made with the primary provider, and
\* when every call has returned the summarizer's provider is the primary.
C38_SwitchNeverObserved ==
    /\ \A g \in Goroutines : last.call[g].used \in {"", SharedPrimary}
    /\ (\A g \in Goroutines : last.call[g].pc = "returned")
         => last.provider = SharedPrimary


---------------------------------------------------------------------------
(* AISummarizer.Initialize as a function of the environment                *)

\* most names in AI_SUMMARIZER_FALLBACK_ORDER
MaxOrderLen == 2

\* the environment: AI_SUMMARIZER_PROVIDER, the providers whose API key is
\* set, and the names in AI_SUMMARIZER_FALLBACK_ORDER
Environments ==
    {[primary |-> p, keys |-> k, order |-> o] :
       p \in ProviderNames, k \in SUBSET ProviderNames,
       o \in SeqsUpTo(ProviderNames, MaxOrderLen)}

\* what Initialize leaves: an error, or s.provider and s.fallbackProviders
Initialized(err, provider, fallbackProviders) ==
    [err |-> err, provider |-> provider, fallbackProviders |-> fallbackProviders]

ChainInit ==
    /\ rows = {}
    /\ now = 0
    /\ last \in {Applied("none", env, Initialized(FALSE, "", <<>>)) :
                   env \in Environments}

\* s.Initialize() on a summarizer without a provider
ApplyInitialize ==
    /\ last.fn = "none"
    /\ LET env == last.arg
       IN  IF env.primary \notin env.keys
           THEN last' = Applied("Initialize", env, Initialized(TRUE, "", <<>>))
           ELSE \E chain \in InitializeChains(env.primary, env.keys, env.order) :
                  last' = Applied("Initialize", env,
                                  Initialized(FALSE, env.primary, chain))
    /\ UNCHANGED <<rows, now>>

ChainSpec == ChainInit /\ [][ApplyInitialize]_vars

\* C39: the fallback chain Initialize builds holds each provider at most
\* once and never the primary provider.
C39_ChainWithoutRepeats ==
    (last.fn = "Initialize" /\ ~last.out.err)
        => LET chain == last.out.fallbackProviders
           IN  /\ \A i, j \in DOMAIN chain : chain[i] = chain[j] => i = j
               /\ \A i \in DOMAIN chain : chain[i] # last.out.provider


\* C40: the cache never holds more summaries than its capacity, holds at
\* most one per text, and after a Summarize that computed a summary it
\* holds that summary under the text with the expiry it was written with.
C40_CacheWithinCapacity ==
    /\ Cardinality(last.s.cache) <= CacheCapacity
    /\ \A x, y \in last.s.cache : x.key = y.key => x = y
    /\ (last.op = "Summarize" /\ ~last.res.hit)
         => CacheItem(last.text, last.res.summary,
                      last.returned[last.text].expireAt) \in last.s.cache

\* a summary was written to a full cache: it is there, the cache is at
\* capacity, and the entry of another text has been evicted
C40_Witness ==
    /\ last.op = "Summarize"
    /\ ~last.res.hit
    /\ Cardinality(last.s.cache) = CacheCapacity
    /\ \E item \in last.s.cache :
         item.key = last.text /\ item.summary = last.res.summary
    /\ \E text \in AITexts :
         /\ last.returned[text] # NoEntry
         /\ \A item \in last.s.cache : item.key # text

====
